---- MODULE Spec2Model ----
(***************************************************************************)
(* One invocation of the obsidian-tools command line (src/src/cli.ts).     *)
(* The process is modelled between its awaits: Main runs the synchronous   *)
(* prefix (strip --vault, dispatch, local argument parsing) and issues the *)
(* first call to the external collection; one action per awaited call      *)
(* models the code that runs when that call returns an ordinary response,  *)
(* a response carrying an error field, or a rejection (a thrown failure).  *)
(* Tokens are strings; the string functions of the source (startsWith,     *)
(* split, trim, join, slice, parseInt) are computed character by character.*)
(***************************************************************************)
EXTENDS Integers, Sequences, FiniteSets, TLC

VARIABLES
    argv,      \* process.argv.slice(2)
    envVault,  \* process.env.VAULT_PATH
    fs,        \* the query files on disk: path -> [exists, yaml]
    clock,     \* what new Date() returned in formatRelativeTime (-1: not read)
    pc,        \* where the process is: start, the awaited call, or exited
    handler,   \* the command handler main selected ("" before dispatch)
    calls,     \* the calls issued to the external collection, in order
    opened,    \* number of collection handles opened successfully
    received,  \* what create, query and validate answered, in order
    saved,     \* responses a handler keeps across awaits (report)
    exitAfter, \* exit status the handler ends with once close has returned
    stdout,    \* lines written with console.log
    stderr,    \* lines written with console.error
    exitCode   \* -1 while the process runs, then its exit status

vars == <<argv, envVault, fs, clock, pc, handler, calls, opened, received, saved, exitAfter, stdout,
          stderr, exitCode>>

-----------------------------------------------------------------------------
(* Bounds of the model *)

\* Longest argument list after the command token, all commands together.
MaxArgs == 2
\* Longest argument list of capture, add and query when taken alone.
MaxCaptureArgs == 4
MaxAddArgs == 4
MaxQueryArgs == 4
MaxOrderArgs == 3
MaxVaultArgs == 4
MaxFormatArgs == 4
MaxLimitArgs == 4
MaxFlagArgs == 4

-----------------------------------------------------------------------------
(* JavaScript values *)

Undefined == [t |-> "undefined"]
Str(s) == [t |-> "string", v |-> s]
Num(n) == [t |-> "number", v |-> n]
NaN == [t |-> "NaN"]
List(q) == [t |-> "list", v |-> q]
Map(f) == [t |-> "map", v |-> f]
Null == [t |-> "null"]

\* The empty mapping {}.
EmptyMap == [k \in {} |-> Undefined]

\* obj with obj[key] = val added or overwritten.
Put(obj, key, val) ==
    [k \in DOMAIN obj \cup {key} |-> IF k = key THEN val ELSE obj[k]]

\* obj without the keys in ks (object rest destructuring).
Omit(obj, ks) == [k \in DOMAIN obj \ ks |-> obj[k]]

\* obj[key], undefined when the key is absent.
Get(obj, key) == IF key \in DOMAIN obj THEN obj[key] ELSE Undefined

-----------------------------------------------------------------------------
(* String functions *)

CharAt(s, i) == SubSeq(s, i, i)

StartsWith(s, p) == Len(s) >= Len(p) /\ SubSeq(s, 1, Len(p)) = p

\* String.prototype.slice(from) / slice(0, n), zero-based as in the source.
SliceFrom(s, from) == SubSeq(s, from + 1, Len(s))
SliceTo(s, n) == SubSeq(s, 1, IF n < Len(s) THEN n ELSE Len(s))

\* Array.prototype.join(sep).
RECURSIVE Join(_, _)
Join(parts, sep) ==
    IF Len(parts) = 0 THEN ""
    ELSE IF Len(parts) = 1 THEN parts[1]
    ELSE parts[1] \o sep \o Join(Tail(parts), sep)

\* Index of the first occurrence of the character c in s at or after i, or 0.
RECURSIVE IndexOfFrom(_, _, _)
IndexOfFrom(s, c, i) ==
    IF i > Len(s) THEN 0
    ELSE IF CharAt(s, i) = c THEN i
    ELSE IndexOfFrom(s, c, i + 1)

\* String.prototype.split(c) for a one-character separator.
RECURSIVE Split(_, _)
Split(s, c) ==
    LET i == IndexOfFrom(s, c, 1) IN
    IF i = 0 THEN <<s>>
    ELSE <<SubSeq(s, 1, i - 1)>> \o Split(SubSeq(s, i + 1, Len(s)), c)

RECURSIVE TrimStart(_)
TrimStart(s) ==
    IF Len(s) > 0 /\ CharAt(s, 1) = " " THEN TrimStart(SubSeq(s, 2, Len(s)))
    ELSE s

RECURSIVE TrimEnd(_)
TrimEnd(s) ==
    IF Len(s) > 0 /\ CharAt(s, Len(s)) = " "
    THEN TrimEnd(SubSeq(s, 1, Len(s) - 1))
    ELSE s

\* String.prototype.trim().
Trim(s) == TrimEnd(TrimStart(s))

Digits == <<"0", "1", "2", "3", "4", "5", "6", "7", "8", "9">>

IsDigit(c) == \E d \in 1..10 : Digits[d] = c

DigitValue(c) == (CHOOSE d \in 1..10 : Digits[d] = c) - 1

\* Value of the longest run of decimal digits of s starting at i, given the
\* value acc of the digits already read.
RECURSIVE DigitRun(_, _, _)
DigitRun(s, i, acc) ==
    IF i <= Len(s) /\ IsDigit(CharAt(s, i))
    THEN DigitRun(s, i + 1, acc * 10 + DigitValue(CharAt(s, i)))
    ELSE acc

\* parseInt(s, 10): leading white space skipped, an optional sign, then the
\* longest prefix of digits; NaN when there is no digit.
ParseInt(s) ==
    LET u == TrimStart(s)
        neg == Len(u) > 0 /\ CharAt(u, 1) = "-"
        signed == Len(u) > 0 /\ CharAt(u, 1) \in {"-", "+"}
        d == IF signed THEN 2 ELSE 1
    IN  IF d <= Len(u) /\ IsDigit(CharAt(u, d))
        THEN Num((IF neg THEN -1 ELSE 1) * DigitRun(u, d, 0))
        ELSE NaN

\* JavaScript truthiness of the values the handlers test.
Truthy(x) ==
    CASE x.t = "undefined" -> FALSE
      [] x.t = "null"      -> FALSE
      [] x.t = "NaN"       -> FALSE
      [] x.t = "string"    -> x.v # ""
      [] x.t = "number"    -> x.v # 0
      [] x.t = "bool"      -> x.v
      [] OTHER             -> TRUE

-----------------------------------------------------------------------------
(* Argument parsing *)

\* A stripVaultFlag that drops the flag and keeps the token after it.
RECURSIVE StripFlagOnlyFrom(_, _)
StripFlagOnlyFrom(args, i) ==
    IF i > Len(args) THEN <<>>
    ELSE IF args[i] = "--vault" THEN StripFlagOnlyFrom(args, i + 1)
    ELSE <<args[i]>> \o StripFlagOnlyFrom(args, i + 1)

stripVaultFlagOnly(args) == StripFlagOnlyFrom(args, 1)

\* stripVaultFlag: every "--vault" and the token after it are dropped.
RECURSIVE StripFrom(_, _)
StripFrom(args, i) ==
    IF i > Len(args) THEN <<>>
    ELSE IF args[i] = "--vault" THEN StripFrom(args, i + 2)
    ELSE <<args[i]>> \o StripFrom(args, i + 1)

stripVaultFlag(args) == StripFrom(args, 1)

\* value.split(",").map((t) => t.trim())
TrimAll(parts) == [j \in 1..Len(parts) |-> Trim(parts[j])]

\* A parseArgs that stores every value as the string it was given.
FieldValueRaw(key, value) == Str(value)

\* The value parseArgs stores for --key value.
FieldValue(key, value) ==
    IF key = "tags" THEN List(TrimAll(Split(value, ",")))
    ELSE IF key = "priority" THEN ParseInt(value)
    ELSE Str(value)

\* The loop of parseArgs over rest from index i; exit is TRUE when the loop
\* ended the process with "Missing value for --key".
RECURSIVE ParseArgsLoop(_, _, _)
ParseArgsLoop(rest, i, fields) ==
    IF i > Len(rest) THEN [exit |-> FALSE, fields |-> fields, err |-> ""]
    ELSE IF StartsWith(rest[i], "--")
    THEN LET key == SliceFrom(rest[i], 2) IN
         IF i + 1 > Len(rest)
         THEN [exit |-> TRUE, fields |-> fields,
               err |-> "Missing value for --" \o key]
         ELSE ParseArgsLoop(rest, i + 2,
                            Put(fields, key, FieldValue(key, rest[i + 1])))
    ELSE ParseArgsLoop(rest, i + 1, fields)

\* parseArgs(args) for a non-empty args: the type and the parsed fields.
parseArgs(args) ==
    LET r == ParseArgsLoop(Tail(args), 1, EmptyMap) IN
    [exit |-> r.exit, err |-> r.err, type |-> args[1], fields |-> r.fields]

\* The create request addDocument builds from parseArgs' result.
AddRequest(type, fields) ==
    [type |-> type,
     path |-> Get(fields, "path"),
     frontmatter |-> Omit(fields, {"body", "path"}),
     body |-> Get(fields, "body")]

\* A flushFlag that joins the collected tokens without the space.
flushFlagNoSpace(st) ==
    [st EXCEPT
        !.context = IF st.currentFlag = "--context"
                    THEN Str(Join(st.flagParts, "")) ELSE @,
        !.source = IF st.currentFlag = "--source"
                   THEN Str(Join(st.flagParts, "")) ELSE @,
        !.flagParts = <<>>,
        !.currentFlag = ""]

\* flushFlag of captureNote ("" stands for a null currentFlag).
flushFlag(st) ==
    [st EXCEPT
        !.context = IF st.currentFlag = "--context"
                    THEN Str(Join(st.flagParts, " ")) ELSE @,
        !.source = IF st.currentFlag = "--source"
                   THEN Str(Join(st.flagParts, " ")) ELSE @,
        !.flagParts = <<>>,
        !.currentFlag = ""]

\* One iteration of captureNote's loop over args.
CaptureStep(st, arg) ==
    IF arg = "--context" \/ arg = "--source"
    THEN [flushFlag(st) EXCEPT !.currentFlag = arg]
    ELSE IF StartsWith(arg, "--") THEN flushFlag(st)
    ELSE IF st.currentFlag # ""
    THEN [st EXCEPT !.flagParts = Append(@, arg)]
    ELSE [st EXCEPT !.contentParts = Append(@, arg)]

RECURSIVE CaptureLoop(_, _, _)
CaptureLoop(args, i, st) ==
    IF i > Len(args) THEN st
    ELSE CaptureLoop(args, i + 1, CaptureStep(st, args[i]))

\* captureNote's parse: content, context and source.
parseCapture(args) ==
    LET st == flushFlag(CaptureLoop(args, 1,
                  [contentParts |-> <<>>, context |-> Undefined,
                   source |-> Undefined, currentFlag |-> "",
                   flagParts |-> <<>>]))
    IN  [content |-> Join(st.contentParts, " "),
         context |-> st.context, source |-> st.source]

\* The identifier and the timestamp captureNote generates (ulid(), new
\* Date().toISOString()); their values are outside the model.
GeneratedId == "01HZXULID0000000000000000"
GeneratedTimestamp == "2026-01-01T00:00:00.000Z"

\* A captureNote that sets context and source whether or not they were given.
CaptureRequestAlwaysKeys(p) ==
    [type |-> "fleeting",
     frontmatter |-> [id |-> Str(GeneratedId), status |-> Str("unprocessed"),
                      captured |-> Str(GeneratedTimestamp),
                      context |-> p.context, source |-> p.source],
     body |-> p.content]

\* The create request captureNote builds.
CaptureRequest(p) ==
    LET base == [id |-> Str(GeneratedId), status |-> Str("unprocessed"),
                 captured |-> Str(GeneratedTimestamp)]
        withContext == IF Truthy(p.context)
                       THEN Put(base, "context", p.context) ELSE base
        withSource == IF Truthy(p.source)
                      THEN Put(withContext, "source", p.source)
                      ELSE withContext
    IN  [type |-> "fleeting", frontmatter |-> withSource, body |-> p.content]

\* options as parseQueryArgs initialises it.
DefaultOptions ==
    [types |-> <<>>, where |-> Undefined, order_by |-> <<>>,
     limit |-> Undefined, offset |-> Undefined, folder |-> Undefined,
     include_body |-> FALSE, json |-> FALSE, format |-> "list"]

\* const [field, dir = "asc"] = next.split(":")
OrderEntry(next) ==
    LET parts == Split(next, ":") IN
    [field |-> parts[1],
     direction |-> IF Len(parts) >= 2 THEN parts[2] ELSE "asc"]

\* The loop of parseQueryArgs from index i; hasNext is "if (next)".
RECURSIVE QueryArgsLoop(_, _, _)
QueryArgsLoop(args, i, o) ==
    IF i > Len(args) THEN o
    ELSE
    LET arg == args[i]
        hasNext == i + 1 <= Len(args) /\ args[i + 1] # ""
        next == IF i + 1 <= Len(args) THEN args[i + 1] ELSE ""
    IN  CASE arg \in {"--type", "-t"} ->
               QueryArgsLoop(args, i + 2,
                   IF hasNext THEN [o EXCEPT !.types = Append(@, next)] ELSE o)
          [] arg \in {"--where", "-w"} ->
               QueryArgsLoop(args, i + 2,
                   IF hasNext THEN [o EXCEPT !.where = Str(next)] ELSE o)
          [] arg \in {"--order", "-o"} ->
               QueryArgsLoop(args, i + 2,
                   IF hasNext
                   THEN [o EXCEPT !.order_by = Append(@, OrderEntry(next))]
                   ELSE o)
          [] arg \in {"--limit", "-l"} ->
               QueryArgsLoop(args, i + 2,
                   IF hasNext THEN [o EXCEPT !.limit = ParseInt(next)] ELSE o)
          [] arg = "--offset" ->
               QueryArgsLoop(args, i + 2,
                   IF hasNext THEN [o EXCEPT !.offset = ParseInt(next)] ELSE o)
          [] arg \in {"--folder", "-f"} ->
               QueryArgsLoop(args, i + 2,
                   IF hasNext THEN [o EXCEPT !.folder = Str(next)] ELSE o)
          [] arg = "--body" ->
               QueryArgsLoop(args, i + 1, [o EXCEPT !.include_body = TRUE])
          [] arg = "--json" ->
               QueryArgsLoop(args, i + 1,
                   [o EXCEPT !.json = TRUE, !.format = "json"])
          [] arg = "--format" ->
               QueryArgsLoop(args, i + 2,
                   IF hasNext /\ next \in {"table", "list", "json"}
                   THEN [o EXCEPT !.format = next] ELSE o)
          [] OTHER -> QueryArgsLoop(args, i + 1, o)

\* A parseQueryArgs that reads --json as the flag wherever it stands, as a
\* flag's value too.
parseQueryArgsJsonAnywhere(args) ==
    IF \E i \in 1..Len(args) : args[i] = "--json"
    THEN [QueryArgsLoop(args, 1, DefaultOptions)
             EXCEPT !.json = TRUE, !.format = "json"]
    ELSE QueryArgsLoop(args, 1, DefaultOptions)

parseQueryArgs(args) == QueryArgsLoop(args, 1, DefaultOptions)

\* A hasFilters that also counts --order as a filter.
hasFiltersCountingOrder(o) ==
    Len(o.types) > 0 \/ Truthy(o.where) \/ Truthy(o.folder)
    \/ Len(o.order_by) > 0

\* hasFilters of queryCommand.
hasFilters(o) == Len(o.types) > 0 \/ Truthy(o.where) \/ Truthy(o.folder)

DefaultWhere == "status != \"done\" && status != \"cancelled\""

\* queryInput.types / where / order_by of queryCommand: <<>> when the key is
\* left out of the request, else <<value>>.
QueryTypes(o) ==
    IF Len(o.types) > 0 THEN <<o.types>>
    ELSE IF ~hasFilters(o) THEN << <<"task">> >>
    ELSE <<>>

QueryWhere(o) ==
    IF Truthy(o.where) THEN <<o.where.v>>
    ELSE IF ~hasFilters(o) THEN <<DefaultWhere>>
    ELSE <<>>

\* An order_by that falls back to the default whenever --order is absent.
QueryOrderByAlwaysDefault(o) ==
    IF Len(o.order_by) > 0 THEN <<o.order_by>>
    ELSE << <<[field |-> "priority", direction |-> "asc"]>> >>

QueryOrderBy(o) ==
    IF Len(o.order_by) > 0 THEN <<o.order_by>>
    ELSE IF ~hasFilters(o)
    THEN << <<[field |-> "priority", direction |-> "asc"]>> >>
    ELSE <<>>

\* base with key set to the value of opt when opt holds one.
PutOpt(base, key, opt) == IF Len(opt) = 0 THEN base ELSE Put(base, key, opt[1])

\* A queryCommand that sends every limit and offset the parser set, zero and
\* not-a-number included.
QueryInputAnyNumber(o) ==
    LET q1 == PutOpt(EmptyMap, "types", QueryTypes(o))
        q2 == PutOpt(q1, "where", QueryWhere(o))
        q3 == PutOpt(q2, "order_by", QueryOrderBy(o))
        q4 == IF Truthy(o.folder) THEN Put(q3, "folder", o.folder.v) ELSE q3
        q5 == IF o.limit # Undefined THEN Put(q4, "limit", o.limit.v) ELSE q4
        q6 == IF o.offset # Undefined THEN Put(q5, "offset", o.offset.v) ELSE q5
    IN  IF o.include_body THEN Put(q6, "include_body", TRUE) ELSE q6

\* The request queryCommand sends: a mapping with only the keys it assigned.
QueryInput(o) ==
    LET q1 == PutOpt(EmptyMap, "types", QueryTypes(o))
        q2 == PutOpt(q1, "where", QueryWhere(o))
        q3 == PutOpt(q2, "order_by", QueryOrderBy(o))
        q4 == IF Truthy(o.folder) THEN Put(q3, "folder", o.folder.v) ELSE q3
        q5 == IF Truthy(o.limit) THEN Put(q4, "limit", o.limit.v) ELSE q4
        q6 == IF Truthy(o.offset) THEN Put(q5, "offset", o.offset.v) ELSE q5
    IN  IF o.include_body THEN Put(q6, "include_body", TRUE) ELSE q6

\* runQuery's scan of its arguments: --json and the last token that does not
\* start with "-" ("" stands for an undefined filePath).
RECURSIVE RunArgsLoop(_, _, _)
RunArgsLoop(args, i, r) ==
    IF i > Len(args) THEN r
    ELSE RunArgsLoop(args, i + 1,
            IF args[i] = "--json" THEN [r EXCEPT !.jsonOutput = TRUE]
            ELSE IF ~StartsWith(args[i], "-") THEN [r EXCEPT !.filePath = args[i]]
            ELSE r)

parseRunArgs(args) == RunArgsLoop(args, 1, [jsonOutput |-> FALSE, filePath |-> ""])

\* The working directory path.resolve resolves against.
Cwd == "/work"

\* path.resolve(p) for the paths of the model: absolute paths are kept,
\* others are taken from the working directory.
resolve(p) == IF StartsWith(p, "/") THEN p ELSE Cwd \o "/" \o p

\* A runQuery that reads the fields off the document as it was parsed.
UnwrapNever(queryDef) == queryDef

\* The 'query:' wrapper of runQuery: queryDef.query when it is an object.
Unwrap(queryDef) ==
    IF queryDef.t = "map" /\ "query" \in DOMAIN queryDef.v
       /\ queryDef.v["query"].t \in {"map", "list"}
    THEN queryDef.v["query"]
    ELSE queryDef

\* queryDef.<key> of runQuery: a property read of the parsed YAML value.
Field(queryDef, key) ==
    IF queryDef.t = "map" THEN Get(queryDef.v, key) ELSE Undefined

Bool(b) == [t |-> "bool", v |-> b]

\* The request runQuery sends: the eight keys it names, read off queryDef.
RunRequest(queryDef) ==
    [types |-> Field(queryDef, "types"),
     where |-> Field(queryDef, "where"),
     order_by |-> Field(queryDef, "order_by"),
     folder |-> Field(queryDef, "folder"),
     limit |-> Field(queryDef, "limit"),
     offset |-> Field(queryDef, "offset"),
     include_body |-> IF Field(queryDef, "include_body").t \in {"undefined", "null"}
                      THEN Bool(FALSE) ELSE Field(queryDef, "include_body"),
     formulas |-> Field(queryDef, "formulas")]

-----------------------------------------------------------------------------
(* Responses of the external collection and their presentation *)

\* An object of a response: its entries <<[k, v], ...>> in insertion order.
Obj(entries) == [t |-> "object", v |-> entries]
E(key, val) == [k |-> key, v |-> val]

\* obj.key (optional chaining included): undefined when obj is undefined or
\* null or has no such entry.
RECURSIVE PropIn(_, _, _)
PropIn(entries, key, i) ==
    IF i > Len(entries) THEN Undefined
    ELSE IF entries[i].k = key THEN entries[i].v
    ELSE PropIn(entries, key, i + 1)

Prop(obj, key) == IF obj.t = "object" THEN PropIn(obj.v, key, 1) ELSE Undefined

\* x ?? y
Coalesce(x, y) == IF x.t \in {"undefined", "null"} THEN y ELSE x

\* The strings of a list of strings.
Strings(list) == [j \in 1..Len(list.v) |-> list.v[j].v]

\* String(x) and template interpolation for the values of a response.
ToStr(x) ==
    CASE x.t = "string"    -> x.v
      [] x.t = "number"    -> ToString(x.v)
      [] x.t = "bool"      -> IF x.v THEN "true" ELSE "false"
      [] x.t = "list"      -> Join(Strings(x), ",")
      [] x.t = "null"      -> "null"
      [] x.t = "undefined" -> "undefined"
      [] x.t = "NaN"       -> "NaN"
      [] OTHER             -> "[object Object]"

\* The escapes JSON.stringify writes inside a string.
RECURSIVE JsonEscape(_, _)
JsonEscape(s, i) ==
    IF i > Len(s) THEN ""
    ELSE (CASE CharAt(s, i) = "\n" -> "\\n"
            [] CharAt(s, i) = "\"" -> "\\\""
            [] CharAt(s, i) = "\\" -> "\\\\"
            [] OTHER -> CharAt(s, i))
         \o JsonEscape(s, i + 1)

\* The entries JSON.stringify writes: those whose value is not undefined.
RECURSIVE JsonDefined(_, _)
JsonDefined(entries, i) ==
    IF i > Len(entries) THEN <<>>
    ELSE (IF entries[i].v.t = "undefined" THEN <<>> ELSE <<entries[i]>>)
         \o JsonDefined(entries, i + 1)

\* JSON.stringify(x, null, 2) of a response value, at indentation `indent`.
RECURSIVE JsonAt(_, _)
RECURSIVE JsonItems(_, _, _)
RECURSIVE JsonEntries(_, _, _)
JsonAt(x, indent) ==
    CASE x.t = "string" -> "\"" \o JsonEscape(x.v, 1) \o "\""
      [] x.t = "number" -> ToString(x.v)
      [] x.t = "bool"   -> IF x.v THEN "true" ELSE "false"
      [] x.t = "list"   ->
           IF Len(x.v) = 0 THEN "[]"
           ELSE "[\n" \o JsonItems(x.v, 1, indent \o "  ") \o "\n" \o indent \o "]"
      [] x.t = "object" ->
           IF Len(JsonDefined(x.v, 1)) = 0 THEN "{}"
           ELSE "{\n" \o JsonEntries(JsonDefined(x.v, 1), 1, indent \o "  ")
                \o "\n" \o indent \o "}"
      [] OTHER          -> "null"
JsonItems(items, i, indent) ==
    IF i > Len(items) THEN ""
    ELSE (IF i > 1 THEN ",\n" ELSE "") \o indent \o JsonAt(items[i], indent)
         \o JsonItems(items, i + 1, indent)
JsonEntries(entries, i, indent) ==
    IF i > Len(entries) THEN ""
    ELSE (IF i > 1 THEN ",\n" ELSE "") \o indent
         \o "\"" \o JsonEscape(entries[i].k, 1) \o "\": "
         \o JsonAt(entries[i].v, indent) \o JsonEntries(entries, i + 1, indent)

Json(x) == JsonAt(x, "")

\* "─".repeat(60) and "═".repeat(60)
Rule == "------------------------------------------------------------"
DoubleRule == "============================================================"

\* The first line of a body: body.split("\n")[0].
FirstLine(body) == Split(body, "\n")[1]

\* The entries of fm whose key is not in skip, in order.
RECURSIVE FilterEntries(_, _, _)
FilterEntries(entries, skip, i) ==
    IF i > Len(entries) THEN <<>>
    ELSE (IF entries[i].k \in skip THEN <<>> ELSE <<entries[i]>>)
         \o FilterEntries(entries, skip, i + 1)

\* Array.prototype.slice(0, n).
Take(q, n) == SubSeq(q, 1, IF n < Len(q) THEN n ELSE Len(q))

\* The lines printQueryResults prints for one document in task mode.
TaskLines(doc) ==
    LET fm == Prop(doc, "frontmatter")
        priority == Coalesce(Prop(fm, "priority"), Str("?"))
        status == Coalesce(Prop(fm, "status"), Str("unknown"))
        title == Coalesce(Prop(fm, "title"), Prop(doc, "path"))
        tags == IF Prop(fm, "tags").t = "list"
                THEN Join(Strings(Prop(fm, "tags")), ", ") ELSE ""
    IN  <<"[P" \o ToStr(priority) \o "] [" \o ToStr(status) \o "] "
          \o ToStr(title)>>
        \o (IF tags # "" THEN <<"       Tags: " \o tags>> ELSE <<>>)

\* The line printed for one displayed frontmatter field.
FieldLine(e) ==
    "  " \o e.k \o ": "
    \o (IF e.v.t = "list" THEN Join(Strings(e.v), ", ") ELSE ToStr(e.v))

\* The lines printQueryResults prints for one document in generic mode.
GenericLines(doc) ==
    LET fm == Prop(doc, "frontmatter")
        docTypes == Strings(Prop(doc, "types"))
        types == IF Len(docTypes) > 0
                 THEN "(" \o Join(docTypes, ", ") \o ")" ELSE "(untyped)"
        title == Coalesce(Prop(fm, "title"), Prop(doc, "path"))
        displayFields == Take(FilterEntries(fm.v, {"title", "type"}, 1), 5)
        body == Prop(doc, "body")
    IN  <<ToStr(title) \o " " \o types, "  Path: " \o ToStr(Prop(doc, "path"))>>
        \o [j \in 1..Len(displayFields) |-> FieldLine(displayFields[j])]
        \o (IF Truthy(body)
            THEN <<"  Body: " \o SliceTo(FirstLine(body.v), 60)
                   \o (IF Len(body.v) > 60 THEN "..." ELSE "")>>
            ELSE <<>>)
        \o <<"">>

RECURSIVE DocLines(_, _, _)
DocLines(results, taskMode, i) ==
    IF i > Len(results) THEN <<>>
    ELSE (IF taskMode THEN TaskLines(results[i]) ELSE GenericLines(results[i]))
         \o DocLines(results, taskMode, i + 1)

\* The closing line of printQueryResults.
TotalLine(results, meta) ==
    LET total == Coalesce(Prop(meta, "total_count"), Num(Len(results))) IN
    "\nTotal: " \o ToString(Len(results))
    \o (IF Truthy(Prop(meta, "has_more")) THEN " of " \o ToStr(total) ELSE "")
    \o " results"

\* printQueryResults(results, meta, taskMode): the lines it prints.
printQueryResults(results, meta, taskMode) ==
    IF Len(results) = 0 THEN <<"  No results found.">>
    ELSE DocLines(results, taskMode, 1) \o <<TotalLine(results, meta)>>

\* result.results ?? []
ResultsOf(result) == Coalesce(Prop(result, "results"), List(<<>>)).v

\* formatRelativeTime, with the clock reading `now` it takes from new Date()
\* and the captured time, both in milliseconds. The calendar date of
\* toLocaleDateString is written as the day number of the captured time.
LocaleDate(ms) == "date " \o ToString(ms \div 86400000)

\* A formatRelativeTime whose minute, hour and day ranges include their upper
\* limit.
formatRelativeTimeInclusive(date, now) ==
    LET diffMs == now - date
        diffMins == diffMs \div 60000
        diffHours == diffMs \div 3600000
        diffDays == diffMs \div 86400000
    IN  IF diffMins < 1 THEN "just now"
        ELSE IF diffMins <= 60 THEN ToString(diffMins) \o "m ago"
        ELSE IF diffHours <= 24 THEN ToString(diffHours) \o "h ago"
        ELSE IF diffDays <= 7 THEN ToString(diffDays) \o "d ago"
        ELSE LocaleDate(date)

\* A formatRelativeTime without the test for less than one minute.
formatRelativeTimeFromZero(date, now) ==
    LET diffMs == now - date
        diffMins == diffMs \div 60000
        diffHours == diffMs \div 3600000
        diffDays == diffMs \div 86400000
    IN  IF diffMins < 60 THEN ToString(diffMins) \o "m ago"
        ELSE IF diffHours < 24 THEN ToString(diffHours) \o "h ago"
        ELSE IF diffDays < 7 THEN ToString(diffDays) \o "d ago"
        ELSE LocaleDate(date)

\* const diffMs = now - date; Math.floor of minutes, hours, days; the first
\* range that holds names the text.
formatRelativeTime(date, now) ==
    LET diffMs == now - date
        diffMins == diffMs \div 60000
        diffHours == diffMs \div 3600000
        diffDays == diffMs \div 86400000
    IN  IF diffMins < 1 THEN "just now"
        ELSE IF diffMins < 60 THEN ToString(diffMins) \o "m ago"
        ELSE IF diffHours < 24 THEN ToString(diffHours) \o "h ago"
        ELSE IF diffDays < 7 THEN ToString(diffDays) \o "d ago"
        ELSE LocaleDate(date)

\* The preview showInbox prints: first line of the body, cut to 50, and the
\* ellipsis it appends.
InboxPreview(body) ==
    LET preview == SliceTo(FirstLine(ToStr(Coalesce(body, Str("")))), 50) IN
    preview \o (IF Len(preview) >= 50 THEN "..." ELSE "")

\* The lines showInbox prints for one note; captured holds the time
\* new Date(captured) denotes.
InboxLines(doc, now) ==
    LET fm == Prop(doc, "frontmatter")
        context == Prop(fm, "context")
        source == Prop(fm, "source")
    IN  <<"[" \o formatRelativeTime(Prop(fm, "captured").v, now) \o "] "
          \o SliceTo(Prop(fm, "id").v, 8) \o ": "
          \o InboxPreview(Prop(doc, "body"))>>
        \o (IF Truthy(context) THEN <<"         Context: " \o ToStr(context)>>
            ELSE <<>>)
        \o (IF Truthy(source) THEN <<"         Source: " \o ToStr(source)>>
            ELSE <<>>)

RECURSIVE AllInboxLines(_, _, _)
AllInboxLines(notes, now, i) ==
    IF i > Len(notes) THEN <<>>
    ELSE InboxLines(notes[i], now) \o AllInboxLines(notes, now, i + 1)

\* Everything showInbox prints for a response without an error field.
InboxOutput(result, now) ==
    LET notes == ResultsOf(result) IN
    <<"Inbox (unprocessed)\n", Rule>>
    \o (IF Len(notes) = 0 THEN <<"  No unprocessed notes in inbox.">>
        ELSE AllInboxLines(notes, now, 1))
    \o <<"\nTotal: " \o ToString(Len(notes)) \o " unprocessed notes">>

\* byType[key] = (byType[key] ?? 0) + 1 on a counter kept in insertion order.
RECURSIVE Bump(_, _, _)
Bump(counts, key, i) ==
    IF i > Len(counts) THEN Append(counts, [k |-> key, n |-> 1])
    ELSE IF counts[i].k = key THEN [counts EXCEPT ![i].n = @ + 1]
    ELSE Bump(counts, key, i + 1)

RECURSIVE Tally(_, _, _)
Tally(keys, i, counts) ==
    IF i > Len(keys) THEN counts
    ELSE Tally(keys, i + 1, Bump(counts, keys[i], 1))

\* The type names generateReport counts: doc.types ?? ["untyped"] of each doc.
RECURSIVE TypeNames(_, _)
TypeNames(results, i) ==
    IF i > Len(results) THEN <<>>
    ELSE Strings(Coalesce(Prop(results[i], "types"), List(<<Str("untyped")>>)))
         \o TypeNames(results, i + 1)

\* The status names generateReport counts.
StatusNames(results) ==
    [j \in 1..Len(results) |->
        ToStr(Coalesce(Prop(Prop(results[j], "frontmatter"), "status"),
                       Str("unknown")))]

\* counts with entry e inserted after every entry whose count is >= e's.
RECURSIVE InsertDesc(_, _)
InsertDesc(sorted, e) ==
    IF Len(sorted) = 0 THEN <<e>>
    ELSE IF sorted[1].n >= e.n THEN <<sorted[1]>> \o InsertDesc(Tail(sorted), e)
    ELSE <<e>> \o sorted

\* .sort((a, b) => b[1] - a[1]): a stable sort by decreasing count.
RECURSIVE SortDesc(_, _, _)
SortDesc(counts, i, sorted) ==
    IF i > Len(counts) THEN sorted
    ELSE SortDesc(counts, i + 1, InsertDesc(sorted, counts[i]))

CountLines(counts) ==
    [j \in 1..Len(counts) |->
        "  " \o counts[j].k \o ": " \o ToString(counts[j].n)]

\* What generateReport prints once the first query has returned.
ReportTypeLines(allDocs) ==
    <<"\nFiles by Type:">>
    \o CountLines(SortDesc(Tally(TypeNames(ResultsOf(allDocs), 1), 1, <<>>),
                           1, <<>>))

\* What generateReport prints once the second query has returned.
ReportStatusLines(tasks) ==
    <<"\nTask Status:">>
    \o CountLines(Tally(StatusNames(ResultsOf(tasks)), 1, <<>>))

\* x?.length ?? 0
LengthOf(x) == IF x.t = "list" THEN Len(x.v) ELSE 0

\* What generateReport prints once validate has returned.
ReportValidationLines(validation, allDocs) ==
    <<"\nValidation:",
      "  Issues: " \o ToString(LengthOf(Prop(validation, "issues"))),
      "  Warnings: " \o ToString(LengthOf(Prop(validation, "warnings"))),
      "\n" \o DoubleRule,
      "Total files: " \o ToString(LengthOf(Prop(allDocs, "results")))>>

\* The lines validateVault prints for a validation result (the marks of the
\* source are written [x], [!] and [ok]).
ValidateLines(result) ==
    LET issues == Prop(result, "issues")
        warnings == Prop(result, "warnings")
    IN  (IF LengthOf(issues) > 0
         THEN <<"Issues:">>
              \o [j \in 1..Len(issues.v) |->
                    "  [x] "
                    \o ToStr(Coalesce(Prop(issues.v[j], "path"), Str("unknown")))
                    \o ": " \o ToStr(Prop(issues.v[j], "message"))]
         ELSE <<>>)
        \o (IF LengthOf(warnings) > 0
            THEN <<"\nWarnings:">>
                 \o [j \in 1..Len(warnings.v) |->
                       "  [!]  " \o ToStr(warnings.v[j])]
            ELSE <<>>)
        \o (IF LengthOf(issues) = 0 /\ LengthOf(warnings) = 0
            THEN <<"[ok] All files valid!">> ELSE <<>>)

\* The lines listFiles prints.
ListLines(result) ==
    LET docs == ResultsOf(result) IN
    <<"Files in vault:\n">>
    \o [j \in 1..Len(docs) |->
          "  " \o ToStr(Prop(docs[j], "path")) \o " "
          \o (IF LengthOf(Prop(docs[j], "types")) > 0
              THEN "(" \o Join(Strings(Prop(docs[j], "types")), ", ") \o ")"
              ELSE "(untyped)")]
    \o <<"\nTotal: " \o ToString(LengthOf(Prop(result, "results"))) \o " files">>

\* A queryCommand that prints the header of the default view before it looks
\* at the output format.
QueryOutputHeaderFirst(o, result) ==
    (IF ~hasFilters(o) THEN <<"Open Tasks (by priority)\n", Rule>> ELSE <<>>)
    \o (IF o.format = "json" \/ o.json THEN <<Json(result)>>
        ELSE printQueryResults(ResultsOf(result), Prop(result, "meta"),
                               ~hasFilters(o)))

\* A queryCommand that looks only at the format option.
QueryOutputFormatOnly(o, result) ==
    IF o.format = "json" THEN <<Json(result)>>
    ELSE (IF ~hasFilters(o) THEN <<"Open Tasks (by priority)\n", Rule>> ELSE <<>>)
         \o printQueryResults(ResultsOf(result), Prop(result, "meta"),
                              ~hasFilters(o))

\* What queryCommand prints for a response without an error field.
QueryOutput(o, result) ==
    IF o.format = "json" \/ o.json THEN <<Json(result)>>
    ELSE (IF ~hasFilters(o) THEN <<"Open Tasks (by priority)\n", Rule>> ELSE <<>>)
         \o printQueryResults(ResultsOf(result), Prop(result, "meta"),
                              ~hasFilters(o))

\* What runQuery prints for a response without an error field.
RunOutput(jsonOutput, result) ==
    IF jsonOutput THEN <<Json(result)>>
    ELSE printQueryResults(ResultsOf(result), Prop(result, "meta"), FALSE)

-----------------------------------------------------------------------------
(* Configuration (src/src/config.ts) and the dispatch table *)

HomeDir == "/home/user"

\* args.indexOf("--vault"), one-based; 0 when absent.
RECURSIVE IndexOfToken(_, _, _)
IndexOfToken(args, tok, i) ==
    IF i > Len(args) THEN 0
    ELSE IF args[i] = tok THEN i
    ELSE IndexOfToken(args, tok, i + 1)

getVaultFromArgs(args) ==
    LET vaultIdx == IndexOfToken(args, "--vault", 1) IN
    IF vaultIdx # 0 /\ vaultIdx + 1 <= Len(args) /\ args[vaultIdx + 1] # ""
    THEN Str(args[vaultIdx + 1])
    ELSE Undefined

\* A VAULT_PATH that prefers the environment variable to the flag.
VAULT_PATH_EnvFirst(args, env) ==
    Coalesce(Coalesce(env, getVaultFromArgs(args)),
             Str(HomeDir \o "/obsidian_vaults/mdbase_vault")).v

\* VAULT_PATH = getVaultFromArgs() ?? process.env.VAULT_PATH ?? default
VAULT_PATH(args, env) ==
    Coalesce(Coalesce(getVaultFromArgs(args), env),
             Str(HomeDir \o "/obsidian_vaults/mdbase_vault")).v

\* The own keys of simpleCommands.
simpleCommands == {"report", "validate", "list", "inbox", "help"}

\* The members simpleCommands inherits from Object.prototype, which
\* `command in simpleCommands` also finds: those that return when called
\* without arguments, and those whose call raises a TypeError.
InheritedReturning ==
    {"constructor", "toString", "toLocaleString", "valueOf", "hasOwnProperty",
     "isPrototypeOf", "propertyIsEnumerable", "__lookupGetter__",
     "__lookupSetter__"}
InheritedThrowing == {"__proto__", "__defineGetter__", "__defineSetter__"}

\* command in simpleCommands
InSimpleCommands(command) ==
    command \in simpleCommands \cup InheritedReturning \cup InheritedThrowing

\* The text showHelp prints (abridged; it ends with the current vault path).
HelpText(vaultPath) ==
    "obsidian-tools - Vault management CLI\nUsage: obsidian-tools <command> [options]\nCurrent: "
    \o vaultPath

-----------------------------------------------------------------------------
(* What the external collection may answer *)

\* A rejected promise: the call throws at its await.
Rejection == [t |-> "rejection", v |-> "collection call failed"]

ErrorResponse(msg) == Obj(<<E("error", Obj(<<E("message", Str(msg))>>))>>)

\* How Collection.open can end: a collection, a response with an error field,
\* or a rejection.
OpenOutcomes == {"ok", "error", "rejection"}

CreateResponses ==
    {Obj(<<E("path", Str("inbox/01HZXULID.md"))>>),
     Obj(<<E("path", Str("tasks/Fix bug.md"))>>),
     ErrorResponse("validation failed"),
     Rejection}

Doc(path, types, fm, body) ==
    Obj(<<E("path", Str(path)), E("types", List(types)),
          E("frontmatter", Obj(fm)), E("body", body)>>)

TaskDoc ==
    Doc("tasks/Fix bug.md", <<Str("task")>>,
        <<E("title", Str("Fix bug")), E("priority", Num(1)),
          E("status", Str("open")),
          E("tags", List(<<Str("work"), Str("urgent")>>))>>,
        Null)

\* A note whose first line is short and whose whole body is longer than 60.
NoteDoc ==
    Doc("notes/plan.md", <<>>, <<E("status", Str("done"))>>,
        Str("Plan\n" \o Rule))

\* A fleeting note captured at time 0 whose body has exactly 50 characters.
FleetingDoc ==
    Doc("inbox/01HZXULID.md", <<Str("fleeting")>>,
        <<E("id", Str(GeneratedId)), E("status", Str("unprocessed")),
          E("captured", Num(0)), E("context", Str("PR review"))>>,
        Str(SubSeq(Rule, 1, 50)))

\* A fleeting note captured 25 hours after FleetingDoc, with a source and no
\* body.
LaterDoc ==
    Doc("inbox/01HZYULID.md", <<Str("fleeting")>>,
        <<E("id", Str("01HZYULID0000000000000000")),
          E("status", Str("unprocessed")), E("captured", Num(90000000)),
          E("source", Str("thought"))>>,
        Null)

Meta(total, more) ==
    E("meta", Obj(<<E("total_count", Num(total)), E("has_more", Bool(more))>>))

QueryResponses ==
    {Obj(<<E("results", List(<<>>)), Meta(0, FALSE)>>),
     Obj(<<E("results", List(<<TaskDoc>>)), Meta(1, FALSE)>>),
     Obj(<<E("results", List(<<TaskDoc, NoteDoc>>)), Meta(5, TRUE)>>),
     Obj(<<E("results", List(<<FleetingDoc>>))>>),
     ErrorResponse("bad expression"),
     Rejection}

\* Answers to showInbox's query, which asks for fleeting notes only.
InboxResponses ==
    {Obj(<<E("results", List(<<>>)), Meta(0, FALSE)>>),
     Obj(<<E("results", List(<<FleetingDoc>>))>>),
     Obj(<<E("results", List(<<LaterDoc, FleetingDoc>>)), Meta(7, TRUE)>>),
     ErrorResponse("bad expression"),
     Rejection}

ValidateResponses ==
    {Obj(<<>>),
     Obj(<<E("issues", List(<<Obj(<<E("message", Str("title missing"))>>)>>)),
           E("warnings", List(<<Str("unknown field")>>))>>),
     Rejection}

\* The clock readings of showInbox, in milliseconds after the capture of
\* FleetingDoc: each side of the minute, the hour, the day and the week, and
\* some time in between. formatRelativeTime reads the clock once per note;
\* the notes of one render get the same reading.
Nows ==
    {0, 59999, 60000, 3599999, 3600000, 10800000, 86399999, 86400000,
     604799999, 604800000, 700000000}

-----------------------------------------------------------------------------
(* The process *)

\* const [command = "help", ...args] = stripVaultFlag(process.argv.slice(2))
Command ==
    IF Len(stripVaultFlag(argv)) = 0 THEN "help" ELSE stripVaultFlag(argv)[1]
Args ==
    IF Len(stripVaultFlag(argv)) = 0 THEN <<>> ELSE Tail(stripVaultFlag(argv))

vaultPath == VAULT_PATH(argv, envVault)

\* What one synchronous stretch of the process does: the lines it prints,
\* the call it issues to the collection (at most one), where it stops, and
\* the exit status when it ends the process (-1 otherwise).
Step(nextPc, out, err, issued, code) ==
    [pc |-> nextPc, out |-> out, err |-> err, issued |-> issued, code |-> code]

Call(op, req) == <<[op |-> op, req |-> req]>>

\* A handler that issues its call and closes the collection without waiting
\* for the call to return.
AwaitWithoutWaiting(op, req, out) ==
    Step(op, out, <<>>, Call(op, req) \o Call("close", <<>>), -1)

\* The process awaits the call it has just issued.
Await(op, req, out) == Step(op, out, <<>>, Call(op, req), -1)

\* process.exit(code), or main returning (code 0).
ExitWith(code, out, err) == Step("exited", out, err, <<>>, code)

\* main().catch: the rejection's message is printed and the process exits 1.
Catch(message, out) == ExitWith(1, out, <<message>>)

\* await collection.close() as the handler's last call; the handler then
\* returns (status 0) or calls process.exit(1).
CloseThen(out, err) == Step("close", out, err, Call("close", <<>>), -1)

existsSync(path) == path \in DOMAIN fs

\* parseYaml(readFileSync(path)): the parsed value, or a thrown parse error.
YamlOf(path) == fs[path]

\* An addDocument that goes on when parseArgs found a flag without value.
AddStartIgnoringMissingValue(args) ==
    IF Len(args) = 0
    THEN ExitWith(1, <<>>,
           <<"Usage: obsidian-tools add <type> [--field value]...",
             "Example: obsidian-tools add task --title 'New task' --priority 1">>)
    ELSE Await("open", vaultPath, <<>>)

\* addDocument up to its first await.
AddStart(args) ==
    IF Len(args) = 0
    THEN ExitWith(1, <<>>,
           <<"Usage: obsidian-tools add <type> [--field value]...",
             "Example: obsidian-tools add task --title 'New task' --priority 1">>)
    ELSE IF parseArgs(args).exit
    THEN ExitWith(1, <<>>, <<parseArgs(args).err>>)
    ELSE Await("open", vaultPath, <<>>)

\* captureNote up to its first await.
CaptureStart(args) ==
    IF parseCapture(args).content = ""
    THEN ExitWith(1, <<>>,
           <<"Usage: obsidian-tools capture <content> [--context ...] [--source ...]",
             "Example: obsidian-tools capture \"Quick thought to remember\"">>)
    ELSE Await("open", vaultPath, <<>>)

\* runQuery up to its first await. Reading .query of the null that an empty
\* file parses to raises a TypeError, which main().catch reports.
RunStart(args) ==
    LET filePath == parseRunArgs(args).filePath
        resolvedPath == resolve(filePath)
    IN  IF filePath = ""
        THEN ExitWith(1, <<>>,
               <<"Usage: obsidian-tools run <query-file.yaml> [--json]",
                 "Example: obsidian-tools run queries/overdue.yaml">>)
        ELSE IF ~existsSync(resolvedPath)
        THEN ExitWith(1, <<>>, <<"Query file not found: " \o resolvedPath>>)
        ELSE IF YamlOf(resolvedPath).t = "error"
        THEN ExitWith(1, <<>>,
               <<"Failed to parse YAML: " \o YamlOf(resolvedPath).v>>)
        ELSE IF YamlOf(resolvedPath).t = "null"
        THEN Catch("Cannot read properties of null (reading 'query')", <<>>)
        ELSE Await("open", vaultPath, <<>>)

\* The query definition runQuery sends, once the file has been read.
RunQueryDef == Unwrap(YamlOf(resolve(parseRunArgs(Args).filePath)))

\* main: the handler it selects and what runs up to the first await.
Dispatch(command, args) ==
    CASE command = "add" -> [handler |-> "add", step |-> AddStart(args)]
      [] command = "capture" ->
           [handler |-> "capture", step |-> CaptureStart(args)]
      [] command = "run" -> [handler |-> "run", step |-> RunStart(args)]
      [] command = "query" ->
           [handler |-> "query", step |-> Await("open", vaultPath, <<>>)]
      [] command = "help" ->
           [handler |-> "help",
            step |-> ExitWith(0, <<HelpText(vaultPath)>>, <<>>)]
      [] command \in simpleCommands \ {"help"} ->
           [handler |-> command, step |-> Await("open", vaultPath, <<>>)]
      [] command \in InheritedReturning ->
           [handler |-> "Object.prototype", step |-> ExitWith(0, <<>>, <<>>)]
      [] command \in InheritedThrowing ->
           [handler |-> "Object.prototype",
            step |-> Catch("simpleCommands[command] is not a function", <<>>)]
      [] OTHER ->
           [handler |-> "none",
            step |-> ExitWith(1, <<HelpText(vaultPath)>>,
                              <<"Unknown command: " \o command>>)]

\* The handler's code between a successful openVault and its next await.
AfterOpen ==
    CASE handler = "add" ->
           Await("create", AddRequest(parseArgs(Args).type,
                                      parseArgs(Args).fields), <<>>)
      [] handler = "capture" ->
           Await("create", CaptureRequest(parseCapture(Args)), <<>>)
      [] handler = "run" -> Await("query", RunRequest(RunQueryDef), <<>>)
      [] handler = "query" ->
           Await("query", QueryInput(parseQueryArgs(Args)), <<>>)
      [] handler = "inbox" ->
           Await("query",
                 [types |-> <<"fleeting">>,
                  where |-> "status == \"unprocessed\"",
                  order_by |-> <<[field |-> "captured", direction |-> "desc"]>>,
                  include_body |-> TRUE], <<>>)
      [] handler = "report" ->
           Await("query", EmptyMap, <<"Vault Report\n", DoubleRule>>)
      [] handler = "list" -> Await("query", EmptyMap, <<>>)
      [] handler = "validate" ->
           Await("validate", <<>>, <<"Validating vault...\n">>)

\* The step is taken: output, the issued call, the new position.
Apply(st) ==
    /\ pc' = st.pc
    /\ stdout' = stdout \o st.out
    /\ stderr' = stderr \o st.err
    /\ calls' = calls \o st.issued
    /\ exitCode' = st.code

\* The end of a handler after its last response: on an error field the
\* message is reported, the collection closed and the process exits 1;
\* otherwise the output is printed and the collection closed.
Finish(result, failure, out) ==
    /\ Apply(IF result.t = "rejection" THEN Catch(result.v, <<>>)
             ELSE IF Truthy(Prop(result, "error"))
             THEN CloseThen(<<>>,
                    <<failure \o ToStr(Prop(Prop(result, "error"), "message"))>>)
             ELSE CloseThen(out, <<>>))
    /\ exitAfter' = IF Truthy(Prop(result, "error")) THEN 1 ELSE 0
    /\ received' = Append(received, result)

\* main and the selected handler, up to the first await or to the exit.
Main ==
    /\ pc = "start"
    /\ handler' = Dispatch(Command, Args).handler
    /\ Apply(Dispatch(Command, Args).step)
    /\ UNCHANGED <<argv, envVault, fs, clock, opened, received, saved, exitAfter>>

\* An openVault that hands a collection to the handler although opening
\* failed.
OpenFailedGoesOn(outcome) == AfterOpen

\* openVault when opening failed: an error field is thrown as an Error that
\* names the vault path, a rejection is passed on; main().catch reports it.
OpenFailed(outcome) ==
    Catch(IF outcome = "error"
          THEN "Failed to open vault at " \o vaultPath \o ": cannot open"
          ELSE Rejection.v,
          <<>>)

\* openVault: Collection.open returns.
OpenReturns ==
    /\ pc = "open"
    /\ \E outcome \in OpenOutcomes :
         IF outcome = "ok"
         THEN opened' = opened + 1 /\ Apply(AfterOpen)
         ELSE opened' = opened /\ Apply(OpenFailed(outcome))
    /\ UNCHANGED <<argv, envVault, fs, clock, handler, received, saved, exitAfter>>

\* addDocument after collection.create.
AddCreateReturns ==
    /\ pc = "create" /\ handler = "add"
    /\ \E result \in CreateResponses :
         Finish(result, "Failed to create " \o parseArgs(Args).type \o ": ",
                <<"Created " \o parseArgs(Args).type \o ": "
                  \o ToStr(Prop(result, "path"))>>)
    /\ UNCHANGED <<argv, envVault, fs, clock, handler, saved, opened>>

\* captureNote after collection.create.
CaptureCreateReturns ==
    /\ pc = "create" /\ handler = "capture"
    /\ \E result \in CreateResponses :
         Finish(result, "Failed to capture: ",
                <<"Captured: " \o ToStr(Prop(result, "path"))>>)
    /\ UNCHANGED <<argv, envVault, fs, clock, handler, saved, opened>>

\* runQuery after collection.query.
RunQueryReturns ==
    /\ pc = "query" /\ handler = "run"
    /\ \E result \in QueryResponses :
         Finish(result, "Query failed: ",
                RunOutput(parseRunArgs(Args).jsonOutput, result))
    /\ UNCHANGED <<argv, envVault, fs, clock, handler, saved, opened>>

\* queryCommand after collection.query.
QueryCommandReturns ==
    /\ pc = "query" /\ handler = "query"
    /\ \E result \in QueryResponses :
         Finish(result, "Query failed: ",
                QueryOutput(parseQueryArgs(Args), result))
    /\ UNCHANGED <<argv, envVault, fs, clock, handler, saved, opened>>

\* showInbox calls formatRelativeTime, which reads the clock, once it has a
\* response without error that lists at least one note.
ReadsClock(result) ==
    /\ result.t # "rejection"
    /\ ~Truthy(Prop(result, "error"))
    /\ Len(ResultsOf(result)) > 0

\* showInbox after collection.query; console.error("Query failed:", message)
\* joins its two arguments with a space.
InboxQueryReturns ==
    /\ pc = "query" /\ handler = "inbox"
    /\ \E result \in InboxResponses, now \in Nows :
         /\ Finish(result, "Query failed: ", InboxOutput(result, now))
         /\ clock' = IF ReadsClock(result) THEN now ELSE clock
    /\ UNCHANGED <<argv, envVault, fs, handler, saved, opened>>

\* listFiles after collection.query: no test of the error field.
ListQueryReturns ==
    /\ pc = "query" /\ handler = "list"
    /\ \E result \in QueryResponses :
         /\ Apply(IF result.t = "rejection" THEN Catch(result.v, <<>>)
               ELSE CloseThen(ListLines(result), <<>>))
         /\ received' = Append(received, result)
    /\ exitAfter' = 0
    /\ UNCHANGED <<argv, envVault, fs, clock, handler, saved, opened>>

\* generateReport after its first query: no test of the error field.
ReportFirstQueryReturns ==
    /\ pc = "query" /\ handler = "report"
    /\ \E allDocs \in QueryResponses :
         /\ Apply(IF allDocs.t = "rejection" THEN Catch(allDocs.v, <<>>)
                  ELSE Step("query2", ReportTypeLines(allDocs), <<>>,
                            Call("query", [types |-> <<"task">>]), -1))
         /\ saved' = allDocs
         /\ received' = Append(received, allDocs)
    /\ UNCHANGED <<argv, envVault, fs, clock, handler, exitAfter, opened>>

\* generateReport after its second query.
ReportSecondQueryReturns ==
    /\ pc = "query2" /\ handler = "report"
    /\ \E tasks \in QueryResponses :
         /\ Apply(IF tasks.t = "rejection" THEN Catch(tasks.v, <<>>)
                  ELSE Await("validate", <<>>, ReportStatusLines(tasks)))
         /\ received' = Append(received, tasks)
    /\ UNCHANGED <<argv, envVault, fs, clock, handler, saved, exitAfter, opened>>

\* generateReport after collection.validate.
ReportValidateReturns ==
    /\ pc = "validate" /\ handler = "report"
    /\ \E validation \in ValidateResponses :
         /\ Apply(IF validation.t = "rejection" THEN Catch(validation.v, <<>>)
                  ELSE CloseThen(ReportValidationLines(validation, saved), <<>>))
         /\ received' = Append(received, validation)
    /\ exitAfter' = 0
    /\ UNCHANGED <<argv, envVault, fs, clock, handler, saved, opened>>

\* validateVault after collection.validate.
ValidateReturns ==
    /\ pc = "validate" /\ handler = "validate"
    /\ \E result \in ValidateResponses :
         /\ Apply(IF result.t = "rejection" THEN Catch(result.v, <<>>)
                  ELSE CloseThen(ValidateLines(result), <<>>))
         /\ received' = Append(received, result)
    /\ exitAfter' = 0
    /\ UNCHANGED <<argv, envVault, fs, clock, handler, saved, opened>>

\* collection.close() returns: the handler returns and the process ends with
\* status 0, or the handler calls process.exit(1).
CloseReturns ==
    /\ pc = "close"
    /\ Apply(ExitWith(exitAfter, <<>>, <<>>))
    /\ UNCHANGED <<argv, envVault, fs, clock, handler, received, saved, exitAfter,
                   opened>>

-----------------------------------------------------------------------------
(* Inputs *)

\* The sequences over S of length at most n.
BoundedSeqs(S, n) == UNION {[1..k -> S] : k \in 0..n}

YamlError == [t |-> "error", v |-> "bad indentation of a mapping entry"]

\* A query mapping with three fields of the request and one key that is not
\* a field of the request.
InnerQuery ==
    [types |-> List(<<Str("task")>>),
     where |-> Str("due_date < today()"),
     limit |-> Num(20),
     custom |-> Str("x")]

\* A query mapping that itself has a key `query` holding a mapping.
NestedQuery ==
    [types |-> List(<<Str("task")>>),
     query |-> Map([types |-> List(<<Str("note")>>)])]

QueryMappings == {InnerQuery, EmptyMap, NestedQuery}

\* What parseYaml can return or throw: a parse error, the null of an empty
\* file, a scalar, and each query mapping both bare and under `query:`.
YamlValues ==
    {YamlError, Null, Str("just text")}
    \cup {Map(q) : q \in QueryMappings}
    \cup {Map([query |-> Map(q)]) : q \in QueryMappings}

\* The query files on disk: q.yaml in the working directory, with each content.
FileSystems == {[p \in {Cwd \o "/q.yaml"} |-> y] : y \in YamlValues}

NoFiles == [p \in {} |-> Null]

CommandTokens ==
    {"add", "capture", "run", "query", "report", "validate", "list", "inbox",
     "help", "bogus", "toString", "__proto__"}

\* The argument tokens tried after each command.
ArgTokens(cmd) ==
    CASE cmd = "add" -> {"task", "--title", "Fix bug"}
      [] cmd = "capture" -> {"idea", "--context", ""}
      [] cmd = "run" -> {"q.yaml", "missing.yaml", "--json"}
      [] cmd = "query" -> {"-t", "task", "--json", "--format", "json"}
      [] OTHER -> {"extra"}

\* Where a --vault <path> pair is put around the command and its arguments.
WithVault(place, line) ==
    CASE place = "front" -> <<"--vault", "/flag/vault">> \o line
      [] place = "back" -> line \o <<"--vault", "/flag/vault">>
      [] OTHER -> line

CommandLines ==
    {<<>>} \cup
    UNION {{<<cmd>> \o args : args \in BoundedSeqs(ArgTokens(cmd), MaxArgs)} :
           cmd \in CommandTokens}

Start(line, env, files) ==
    /\ argv = line
    /\ envVault = env
    /\ fs = files
    /\ clock = -1
    /\ pc = "start"
    /\ handler = ""
    /\ calls = <<>>
    /\ opened = 0
    /\ received = <<>>
    /\ saved = Undefined
    /\ exitAfter = 0
    /\ stdout = <<>>
    /\ stderr = <<>>
    /\ exitCode = -1

\* Every command with short argument lists; the --vault pair in each place
\* and the environment variable set or not; run with each content of q.yaml.
Init ==
    \/ \E line \in CommandLines, place \in {"none", "front", "back"},
          env \in {Undefined, Str("/env/vault")} :
         Start(WithVault(place, line), env, NoFiles)
    \/ \E args \in BoundedSeqs(ArgTokens("run"), MaxArgs),
          files \in FileSystems :
         Start(<<"run">> \o args, Undefined, files)

Next ==
    \/ Main
    \/ OpenReturns
    \/ AddCreateReturns
    \/ CaptureCreateReturns
    \/ RunQueryReturns
    \/ QueryCommandReturns
    \/ InboxQueryReturns
    \/ ListQueryReturns
    \/ ReportFirstQueryReturns
    \/ ReportSecondQueryReturns
    \/ ReportValidateReturns
    \/ ValidateReturns
    \/ CloseReturns

Spec == Init /\ [][Next]_vars

-----------------------------------------------------------------------------
(* The commands taken alone, with longer argument lists *)

CaptureTokens == {"idea", "two", "", "--context", "--source", "--foo"}

InitCapture ==
    \E args \in BoundedSeqs(CaptureTokens, MaxCaptureArgs) :
        Start(<<"capture">> \o args, Undefined, NoFiles)

NextCapture ==
    \/ Main
    \/ OpenReturns
    \/ CaptureCreateReturns
    \/ CloseReturns

SpecCapture == InitCapture /\ [][NextCapture]_vars

AddTokens ==
    {"task", "--title", "--priority", "1", "high", "--tags", "work, urgent",
     "--body", "--path"}

InitAdd ==
    \E args \in BoundedSeqs(AddTokens, MaxAddArgs) :
        Start(<<"add">> \o args, Undefined, NoFiles)

NextAdd ==
    \/ Main
    \/ OpenReturns
    \/ AddCreateReturns
    \/ CloseReturns

SpecAdd == InitAdd /\ [][NextAdd]_vars

QueryTokens ==
    {"-t", "--where", "--folder", "-o", "--limit", "task", "", "due:desc",
     "--json"}

InitQuery ==
    \E args \in BoundedSeqs(QueryTokens, MaxQueryArgs) :
        Start(<<"query">> \o args, Undefined, NoFiles)

NextQuery ==
    \/ Main
    \/ OpenReturns
    \/ QueryCommandReturns
    \/ CloseReturns

SpecQuery == InitQuery /\ [][NextQuery]_vars

\* The query command with --order values of every shape: no direction, each
\* recognised direction, an unrecognised one, an empty one, two colons.
OrderTokens ==
    {"-o", "--order", "due", "due:desc", "due:asc", "due:up", "due:", "a:b:c"}

InitOrder ==
    \E args \in BoundedSeqs(OrderTokens, MaxOrderArgs) :
        Start(<<"query">> \o args, Undefined, NoFiles)

SpecOrder == InitOrder /\ [][NextQuery]_vars

\* The inbox command, with the --vault pair in each place.
InitInbox ==
    \E place \in {"none", "front", "back"},
       env \in {Undefined, Str("/env/vault")} :
        Start(WithVault(place, <<"inbox">>), env, NoFiles)

NextInbox ==
    \/ Main
    \/ OpenReturns
    \/ InboxQueryReturns
    \/ CloseReturns

SpecInbox == InitInbox /\ [][NextInbox]_vars

\* Command lines made of the global flag, paths, the empty string and two
\* commands, with the environment variable unset, empty and set.
SpecVault ==
    /\ \E line \in BoundedSeqs({"--vault", "/a", "", "list", "help"},
                                MaxVaultArgs),
          env \in {Undefined, Str(""), Str("/env/vault")} :
           Start(line, env, NoFiles)
    /\ [][Main \/ OpenReturns \/ ListQueryReturns \/ CloseReturns]_vars

\* The query command with the output flags in every order: --json, --format
\* with a JSON, a text and an unknown value, and a value flag before them.
SpecFormat ==
    /\ \E args \in BoundedSeqs({"--json", "--format", "json", "table",
                                 "bogus", "-t"}, MaxFormatArgs) :
           Start(<<"query">> \o args, Undefined, NoFiles)
    /\ [][NextQuery]_vars

\* The query command with the numeric flags and values of every kind: a
\* positive and a negative integer, zero, and a word parseInt cannot read.
SpecLimit ==
    /\ \E args \in BoundedSeqs({"--limit", "-l", "--offset", "5", "-3", "0",
                                 "abc"}, MaxLimitArgs) :
           Start(<<"query">> \o args, Undefined, NoFiles)
    /\ [][NextQuery]_vars

\* The query command with value flags followed by flags and by a plain
\* value, alone and repeated.
SpecFlags ==
    /\ \E args \in BoundedSeqs({"--type", "--where", "--order", "--folder",
                                 "--json", "a"}, MaxFlagArgs) :
           Start(<<"query">> \o args, Undefined, NoFiles)
    /\ [][NextQuery]_vars

-----------------------------------------------------------------------------
(* Vocabulary of the properties *)

Exited == pc = "exited"

\* The calls of one kind issued so far.
CallsOf(op) == SelectSeq(calls, LAMBDA c : c.op = op)

\* Some answer of the collection carried an error field.
ErrorReceived ==
    \E i \in 1..Len(received) : Truthy(Prop(received[i], "error"))

KnownCommands ==
    {"add", "capture", "run", "query", "report", "validate", "list", "inbox",
     "help"}

MaxOf(S) == CHOOSE x \in S : \A y \in S : y <= x
MinOf(S) == CHOOSE x \in S : \A y \in S : x <= y

\* The tokens of args at the positions in P, in argument order.
RECURSIVE InOrder(_, _, _)
InOrder(args, P, i) ==
    IF i > Len(args) THEN <<>>
    ELSE (IF i \in P THEN <<args[i]>> ELSE <<>>) \o InOrder(args, P, i + 1)

\* Token i is the path of a --vault flag: it follows a --vault that is not
\* itself the path of an earlier --vault.
RECURSIVE IsVaultPath(_, _)
IsVaultPath(args, i) ==
    i > 1 /\ args[i - 1] = "--vault" /\ ~IsVaultPath(args, i - 1)

\* The positions of argv left once the global flag and its path are removed.
RemainingPositions ==
    {i \in 1..Len(argv) : argv[i] # "--vault" /\ ~IsVaultPath(argv, i)}

\* The command an invocation names: its first remaining token, help if none.
SelectedCommand ==
    IF RemainingPositions = {} THEN "help" ELSE argv[MinOf(RemainingPositions)]

\* The flags of the query command that take a value.
ValueFlags ==
    {"--type", "-t", "--where", "-w", "--order", "-o", "--limit", "-l",
     "--offset", "--folder", "-f", "--format"}

TypeFlags == {"--type", "-t"}
WhereFlags == {"--where", "-w"}
FolderFlags == {"--folder", "-f"}
OrderFlags == {"--order", "-o"}

\* Token i of a query argument list is the value of the flag before it.
RECURSIVE IsFlagValue(_, _)
IsFlagValue(args, i) ==
    i > 1 /\ args[i - 1] \in ValueFlags /\ ~IsFlagValue(args, i - 1)

\* The non-empty values the caller gave to the flags in `flags`, in order.
GivenValues(args, flags) ==
    InOrder(args,
            {i \in 2..Len(args) :
                /\ args[i - 1] \in flags
                /\ ~IsFlagValue(args, i - 1)
                /\ args[i] # ""},
            1)

\* Some token of the argument list is a filter flag.
NamesFilterFlag(args) ==
    \E i \in 1..Len(args) : args[i] \in TypeFlags \cup WhereFlags \cup FolderFlags

\* The request of the one query call of a query invocation.
QueryIssued == handler = "query" /\ Len(CallsOf("query")) = 1
QueryReq == CallsOf("query")[1].req

\* order_by lists one entry per --order value, each with the field the value
\* starts with.
OrderAsGiven(order_by, given) ==
    /\ Len(order_by) = Len(given)
    /\ \A j \in 1..Len(given) :
          /\ StartsWith(given[j], order_by[j].field)
          /\ (Len(given[j]) > Len(order_by[j].field)
                => CharAt(given[j], Len(order_by[j].field) + 1) = ":")

\* The request carries types, where and order_by exactly as the caller gave
\* them: each key is present only when a value was given, with that value.
FiltersAsGiven(req, args) ==
    /\ "types" \in DOMAIN req <=> GivenValues(args, TypeFlags) # <<>>
    /\ "types" \in DOMAIN req => req.types = GivenValues(args, TypeFlags)
    /\ "where" \in DOMAIN req <=> GivenValues(args, WhereFlags) # <<>>
    /\ "where" \in DOMAIN req =>
          req["where"] = GivenValues(args, WhereFlags)[
                             Len(GivenValues(args, WhereFlags))]
    /\ "order_by" \in DOMAIN req <=> GivenValues(args, OrderFlags) # <<>>
    /\ "order_by" \in DOMAIN req =>
          OrderAsGiven(req.order_by, GivenValues(args, OrderFlags))

-----------------------------------------------------------------------------
(* Properties *)

(* C1: in every invocation a collection handle that was opened is closed    *)
(* exactly once before the process ends, on every exit path, a failure      *)
(* thrown by create, query or validate included.                            *)
C1_OpenedHandleClosedOnce == Exited => Len(CallsOf("close")) = opened

(* C2: whenever a create or query call returns a response carrying an error *)
(* field, the process exits with a non-zero status, in every command.       *)
C2_ErrorFieldExitsNonZero == (Exited /\ ErrorReceived) => exitCode # 0

(* C3, as claimed: a query invocation that names at least one of --type/-t, *)
(* --where/-w, --folder/-f sends a request with none of the task-view       *)
(* defaults: types, where and order_by only as the caller gave them.        *)
C3_NoDefaultsWhenFilterNamed ==
    (QueryIssued /\ NamesFilterFlag(Args)) => FiltersAsGiven(QueryReq, Args)

\* At least one filter flag is read as a flag and has a non-empty value.
FilterGiven(args) ==
    GivenValues(args, TypeFlags \cup WhereFlags \cup FolderFlags) # <<>>

(* C3, amended: a query invocation in which at least one of --type/-t,      *)
(* --where/-w, --folder/-f is read as a flag and is followed by a non-empty *)
(* value sends a request with none of the task-view defaults: types, where  *)
(* and order_by appear only with the values the caller gave, also when      *)
(* --order is absent.                                                       *)
C3_NoDefaultsWhenFilterGiven ==
    (QueryIssued /\ FilterGiven(Args)) => FiltersAsGiven(QueryReq, Args)

C3_Witness ==
    /\ QueryIssued
    /\ GivenValues(Args, TypeFlags) = <<"task">>
    /\ GivenValues(Args, OrderFlags) = <<>>
    /\ "order_by" \notin DOMAIN QueryReq

\* The request carries the default types and the default where.
DefaultTypesAndWhere(req) ==
    /\ "types" \in DOMAIN req /\ req.types = <<"task">>
    /\ "where" \in DOMAIN req
    /\ req["where"] = "status != \"done\" && status != \"cancelled\""

(* C4, as claimed: a query invocation with no --type, --where and --folder  *)
(* filter sends exactly the default triple, types = ["task"], where =       *)
(* 'status != "done" && status != "cancelled"', order_by = [priority asc],  *)
(* whatever other flags (--order included) are present.                     *)
C4_DefaultTripleAlways ==
    (QueryIssued /\ ~NamesFilterFlag(Args)) =>
        /\ DefaultTypesAndWhere(QueryReq)
        /\ "order_by" \in DOMAIN QueryReq
        /\ QueryReq.order_by = <<[field |-> "priority", direction |-> "asc"]>>

(* C4, amended: a query invocation with no --type, --where and --folder     *)
(* filter sends the default types and the default where whatever other      *)
(* flags are present; its order_by is the default [priority asc] when no    *)
(* --order value was given, and the caller's --order list otherwise.        *)
C4_DefaultsUnlessOrdered ==
    (QueryIssued /\ ~NamesFilterFlag(Args)) =>
        /\ DefaultTypesAndWhere(QueryReq)
        /\ "order_by" \in DOMAIN QueryReq
        /\ IF GivenValues(Args, OrderFlags) = <<>>
           THEN QueryReq.order_by =
                    <<[field |-> "priority", direction |-> "asc"]>>
           ELSE OrderAsGiven(QueryReq.order_by, GivenValues(Args, OrderFlags))

C4_Witness ==
    /\ QueryIssued
    /\ Args = <<"--json", "-o", "due:desc">>
    /\ QueryReq.order_by = <<[field |-> "due", direction |-> "desc"]>>

(* C5: for every first token (after removal of --vault) that is not one of  *)
(* the nine commands, the dispatcher prints an error naming the token,      *)
(* prints the help text, runs no handler, never opens the collection and    *)
(* exits with a non-zero status.                                            *)
C5_UnknownCommandRejected ==
    (Exited /\ RemainingPositions # {} /\ SelectedCommand \notin KnownCommands)
        => /\ stderr = <<"Unknown command: " \o SelectedCommand>>
           /\ stdout = <<HelpText(vaultPath)>>
           /\ handler = "none"
           /\ calls = <<>>
           /\ exitCode # 0

\* The calls each handler makes on the collection, open and close apart.
HandlerCalls(h) ==
    CASE h \in {"add", "capture"} -> {"create"}
      [] h \in {"run", "query", "inbox", "list"} -> {"query"}
      [] h = "report" -> {"query", "validate"}
      [] h = "validate" -> {"validate"}
      [] OTHER -> {}

(* C6: each invocation runs at most one command handler, the one named by   *)
(* the first token left once the --vault flag is removed; when no token is  *)
(* left the help handler is selected, help is printed, the collection is    *)
(* never opened and the exit status is 0.                                   *)
C6_OneHandlerByFirstToken ==
    pc # "start" =>
        /\ handler \in KnownCommands \cup {"none", "Object.prototype"}
        /\ (handler \in KnownCommands \/ SelectedCommand \in KnownCommands)
              => handler = SelectedCommand
        /\ \A i \in 1..Len(calls) :
              calls[i].op \in HandlerCalls(handler) \cup {"open", "close"}
        /\ RemainingPositions = {} =>
              /\ handler = "help"
              /\ Exited
              /\ stdout = <<HelpText(vaultPath)>>
              /\ stderr = <<>>
              /\ calls = <<>>
              /\ opened = 0
              /\ exitCode = 0

C6_Witness ==
    /\ Exited
    /\ argv = <<"--vault", "/flag/vault">>
    /\ handler = "help"
    /\ exitCode = 0

\* Token i of add's rest is read as a flag: it starts with "--" and is not
\* the value of the flag before it.
RECURSIVE IsAddFlag(_, _)
IsAddFlag(rest, i) ==
    /\ StartsWith(rest[i], "--")
    /\ ~(i > 1 /\ IsAddFlag(rest, i - 1))

\* The positions of rest where key is given a value.
AddPositions(rest, key) ==
    {i \in 1..Len(rest) - 1 : IsAddFlag(rest, i) /\ rest[i] = "--" \o key}

\* The keys add's arguments name, and the last value given to a key.
AddKeys(rest) ==
    {SliceFrom(rest[i], 2) : i \in {j \in 1..Len(rest) : IsAddFlag(rest, j)}}
AddValue(rest, key) == rest[MaxOf(AddPositions(rest, key)) + 1]

\* The last token of add's arguments is a flag with nothing after it.
AddFlagWithoutValue(args) ==
    Len(args) > 1 /\ IsAddFlag(Tail(args), Len(args) - 1)

\* The positions of capture's arguments that hold note content: tokens that
\* are not flags and do not follow --context or --source as its free text.
ContentPositions(args) ==
    {i \in 1..Len(args) :
        /\ ~StartsWith(args[i], "--")
        /\ LET flagsBefore == {j \in 1..i - 1 : StartsWith(args[j], "--")}
           IN  flagsBefore = {}
               \/ args[MaxOf(flagsBefore)] \notin {"--context", "--source"}}

\* The note content of a capture argument list.
ContentOf(args) == Join(InOrder(args, ContentPositions(args), 1), " ")

\* run names no file: every argument is empty or starts with a dash.
NoFileArgument(args) ==
    \A i \in 1..Len(args) : args[i] = "" \/ StartsWith(args[i], "-")

\* The file run names: its last argument that does not start with a dash.
FileArgument(args) ==
    args[MaxOf({i \in 1..Len(args) : ~StartsWith(args[i], "-")})]

\* The path of the file run names, from the working directory.
FilePath(args) ==
    IF StartsWith(FileArgument(args), "/") THEN FileArgument(args)
    ELSE "/work/" \o FileArgument(args)

\* The invocation is one of the usage and query-file errors.
UsageError ==
    \/ SelectedCommand = "add" /\ Args = <<>>
    \/ SelectedCommand = "add" /\ AddFlagWithoutValue(Args)
    \/ SelectedCommand = "capture" /\ ContentOf(Args) = ""
    \/ SelectedCommand = "run" /\ NoFileArgument(Args)
    \/ /\ SelectedCommand = "run"
       /\ ~NoFileArgument(Args)
       /\ \/ FilePath(Args) \notin DOMAIN fs
          \/ fs[FilePath(Args)] = YamlError

(* C7: every usage error and query-file error (add with no type, add with a *)
(* flag that has no value, capture with empty content, run with no file     *)
(* argument, with a file that does not exist, with a file whose YAML cannot *)
(* be parsed) ends the process with a non-zero status before any collection *)
(* is opened: open, create and query are never called.                      *)
C7_UsageErrorsBeforeOpen ==
    (pc # "start" /\ UsageError) =>
        /\ Exited
        /\ exitCode # 0
        /\ calls = <<>>
        /\ opened = 0
        /\ stderr # <<>>

C7_Witness ==
    /\ Exited
    /\ argv = <<"run", "q.yaml">>
    /\ FilePath(Args) \in DOMAIN fs
    /\ fs[FilePath(Args)] = YamlError
    /\ exitCode = 1
    /\ calls = <<>>

\* Some token of the argument list is the flag.
Names(args, flag) == \E i \in 1..Len(args) : args[i] = flag

(* C8: for every capture invocation with non-empty content whose vault      *)
(* opens, exactly one create call is made, with type "fleeting", body equal *)
(* to the content, frontmatter.status = "unprocessed", frontmatter.id and   *)
(* frontmatter.captured set, and no context (source) key when --context     *)
(* (--source) was not given; when create succeeds the output is             *)
(* `Captured: <path>` with the path the collection returned and the exit    *)
(* status is 0.                                                             *)
C8_CaptureRequestAndReport ==
    (handler = "capture" /\ ContentOf(Args) # "" /\ opened = 1) =>
        /\ Len(CallsOf("create")) = 1
        /\ LET req == CallsOf("create")[1].req IN
             /\ req.type = "fleeting"
             /\ req.body = ContentOf(Args)
             /\ {"id", "status", "captured"} \subseteq DOMAIN req.frontmatter
             /\ req.frontmatter.status = Str("unprocessed")
             /\ req.frontmatter.id.t = "string" /\ req.frontmatter.id.v # ""
             /\ req.frontmatter.captured.t = "string"
             /\ req.frontmatter.captured.v # ""
             /\ ~Names(Args, "--context") => "context" \notin DOMAIN req.frontmatter
             /\ ~Names(Args, "--source") => "source" \notin DOMAIN req.frontmatter
        /\ (Exited /\ Len(received) = 1 /\ Prop(received[1], "path").t = "string")
              => /\ stdout = <<"Captured: " \o Prop(received[1], "path").v>>
                 /\ stderr = <<>>
                 /\ exitCode = 0

C8_Witness ==
    /\ Exited
    /\ Args = <<"idea", "two">>
    /\ Len(CallsOf("create")) = 1
    /\ CallsOf("create")[1].req.body = "idea two"
    /\ stdout = <<"Captured: inbox/01HZXULID.md">>
    /\ exitCode = 0

\* s without its spaces.
RECURSIVE Despaced(_)
Despaced(s) ==
    IF Len(s) = 0 THEN ""
    ELSE (IF CharAt(s, 1) = " " THEN "" ELSE CharAt(s, 1))
         \o Despaced(SubSeq(s, 2, Len(s)))

\* The number of commas of s.
RECURSIVE Commas(_)
Commas(s) ==
    IF Len(s) = 0 THEN 0
    ELSE (IF CharAt(s, 1) = "," THEN 1 ELSE 0) + Commas(SubSeq(s, 2, Len(s)))

\* tags is value split on its commas, each piece trimmed.
TagsOf(tags, value) ==
    /\ tags.t = "list"
    /\ Len(tags.v) = Commas(value) + 1
    /\ \A j \in 1..Len(tags.v) :
          /\ Commas(tags.v[j]) = 0
          /\ ~StartsWith(tags.v[j], " ")
          /\ (Len(tags.v[j]) > 0 => CharAt(tags.v[j], Len(tags.v[j])) # " ")
    /\ Despaced(Join(tags.v, ",")) = Despaced(value)

\* The value starts, after white space and an optional sign, with a digit.
StartsWithNumeral(value) ==
    \E k \in 1..Len(value) :
        /\ CharAt(value, k) \in {"0", "1", "2", "3", "4", "5", "6", "7", "8", "9"}
        /\ \A m \in 1..k - 1 : CharAt(value, m) = " " \/ (m = k - 1 /\ CharAt(value, m) \in {"-", "+"})

\* The request of the create call of an add invocation, and add's flags.
AddIssued == handler = "add" /\ Len(CallsOf("create")) = 1
AddReq == CallsOf("create")[1].req
AddRest == Tail(Args)

\* type is the first token; frontmatter holds the named keys but body and
\* path, which are the request's body and path; tags is a trimmed list.
AddRequestAsGiven ==
    /\ AddReq.type = Args[1]
    /\ DOMAIN AddReq.frontmatter = AddKeys(AddRest) \ {"body", "path"}
    /\ \A k \in DOMAIN AddReq.frontmatter \ {"tags", "priority"} :
          AddReq.frontmatter[k] = Str(AddValue(AddRest, k))
    /\ AddReq.body = IF "body" \in AddKeys(AddRest)
                     THEN Str(AddValue(AddRest, "body")) ELSE Undefined
    /\ AddReq.path = IF "path" \in AddKeys(AddRest)
                     THEN Str(AddValue(AddRest, "path")) ELSE Undefined
    /\ "tags" \in AddKeys(AddRest) =>
          TagsOf(AddReq.frontmatter.tags, AddValue(AddRest, "tags"))

(* C9, as claimed: the create request of add has type equal to the first    *)
(* token and frontmatter equal to the parsed flags minus body and path,     *)
(* which become the request's body and path; a tags value is split on       *)
(* commas and trimmed into a list of strings, and a priority value is an    *)
(* integer, not a string.                                                   *)
C9_PriorityAlwaysInteger ==
    AddIssued =>
        /\ AddRequestAsGiven
        /\ "priority" \in AddKeys(AddRest) =>
              AddReq.frontmatter.priority.t = "number"

(* C9, amended: as claimed, except that a priority value is what parseInt   *)
(* yields: an integer when the value starts, after white space and an       *)
(* optional sign, with a decimal digit, and NaN otherwise; never a string.  *)
C9_AddRequest ==
    AddIssued =>
        /\ AddRequestAsGiven
        /\ "priority" \in AddKeys(AddRest) =>
              /\ AddReq.frontmatter.priority.t \in {"number", "NaN"}
              /\ AddReq.frontmatter.priority.t = "number"
                    <=> StartsWithNumeral(AddValue(AddRest, "priority"))
              /\ \A n \in 0..20 :
                    AddValue(AddRest, "priority") = ToString(n)
                       => AddReq.frontmatter.priority = Num(n)

C9_Witness ==
    /\ AddIssued
    /\ Args = <<"task", "--priority", "high">>
    /\ AddReq.frontmatter.priority = NaN

\* The free text of the last occurrence of flag in a capture argument list:
\* the tokens after it up to the next token that starts with "--".
FreeText(args, flag) ==
    LET last == MaxOf({i \in 1..Len(args) : args[i] = flag}) IN
    InOrder(args,
            {j \in last + 1..Len(args) :
                \A m \in last + 1..j : ~StartsWith(args[m], "--")},
            1)

\* The key of the frontmatter a capture flag sets.
KeyOf(flag) == IF flag = "--context" THEN "context" ELSE "source"

(* C10: in capture, when --context (or --source) is followed by N free-text *)
(* tokens before the next flag or the end of input, the value built for the *)
(* flag is those N tokens, in order, joined by single spaces, and the empty *)
(* string for N = 0 (for a repeated flag: its last occurrence); a non-empty *)
(* value is the one sent in the frontmatter.                                *)
C10_FlagValueIsJoinedFreeText ==
    handler = "capture" =>
        \A flag \in {"--context", "--source"} :
            Names(Args, flag) =>
                /\ parseCapture(Args)[KeyOf(flag)]
                       = Str(Join(FreeText(Args, flag), " "))
                /\ Len(FreeText(Args, flag)) = 0
                       => parseCapture(Args)[KeyOf(flag)] = Str("")
                /\ Len(CallsOf("create")) = 1 =>
                      Get(CallsOf("create")[1].req.frontmatter, KeyOf(flag))
                          = IF Join(FreeText(Args, flag), " ") = ""
                            THEN Undefined
                            ELSE Str(Join(FreeText(Args, flag), " "))

C10_Witness ==
    /\ handler = "capture"
    /\ Args = <<"idea", "--context", "two", "idea">>
    /\ Len(CallsOf("create")) = 1
    /\ CallsOf("create")[1].req.frontmatter.context = Str("two idea")

\* The positions of capture's arguments that come before every token starting
\* with "--".
PositionalPositions(args) ==
    {i \in 1..Len(args) : \A j \in 1..i : ~StartsWith(args[j], "--")}

(* C11: in capture, a token starting with "--" that is not --context or      *)
(* --source ends the flag value being accumulated, and the tokens after it   *)
(* up to the next flag are discarded: the note content is made of the tokens *)
(* before any flag only, and the context and source values hold none of the  *)
(* discarded tokens.                                                         *)
C11_UnknownFlagValueDiscarded ==
    handler = "capture" =>
        /\ parseCapture(Args).content
               = Join(InOrder(Args, PositionalPositions(Args), 1), " ")
        /\ Len(CallsOf("create")) = 1 =>
               CallsOf("create")[1].req.body
                   = Join(InOrder(Args, PositionalPositions(Args), 1), " ")
        /\ \A flag \in {"--context", "--source"} :
               Names(Args, flag) =>
                   parseCapture(Args)[KeyOf(flag)]
                       = Str(Join(FreeText(Args, flag), " "))

\* A run invocation that has sent its query, the request it sent and the
\* parsed content of the file it named.
RunIssued == handler = "run" /\ Len(CallsOf("query")) = 1
RunReq == CallsOf("query")[1].req
RunDocument == fs[FilePath(Args)]

\* The document has a top-level `query:` key that holds a mapping.
HasQueryMapping(doc) ==
    doc.t = "map" /\ "query" \in DOMAIN doc.v /\ doc.v["query"].t = "map"

\* The YAML document `query: Q`.
Wrapped(q) == Map([query |-> q])

\* The request a run sends for a document.
RequestFor(doc) == RunRequest(Unwrap(doc))

(* C12, as claimed: for every query mapping Q, a run on the document         *)
(* `query: Q` and a run on the document Q send identical requests. The run   *)
(* made is compared with the run on its sibling document, taking the file's  *)
(* content both as Q and, when it has the wrapper, as `query: Q`.            *)
C12_WrapperRoundTrip ==
    (RunIssued /\ RunDocument.t = "map") =>
        /\ RunReq = RequestFor(Wrapped(RunDocument))
        /\ HasQueryMapping(RunDocument) =>
               RunReq = RequestFor(RunDocument.v["query"])

(* C12, amended: the same for every query mapping Q that has no key `query`  *)
(* holding a mapping of its own.                                             *)
C12_WrapperRoundTripUnnested ==
    (RunIssued /\ RunDocument.t = "map") =>
        /\ ~HasQueryMapping(RunDocument) =>
               RunReq = RequestFor(Wrapped(RunDocument))
        /\ (HasQueryMapping(RunDocument)
              /\ ~HasQueryMapping(RunDocument.v["query"])) =>
               RunReq = RequestFor(RunDocument.v["query"])

C12_Witness ==
    /\ RunIssued
    /\ FilePath(Args) \in DOMAIN fs
    /\ RunDocument = Wrapped(Map(InnerQuery))
    /\ RunReq.types = List(<<Str("task")>>)
    /\ RunReq.limit = Num(20)
    /\ RunReq = RequestFor(Map(InnerQuery))

\* run names a file that exists and is empty: parseYaml returns null.
EmptyFileNamed ==
    /\ handler = "run"
    /\ ~NoFileArgument(Args)
    /\ FilePath(Args) \in DOMAIN fs
    /\ fs[FilePath(Args)] = Null

\* The request names no types, where, order_by, folder, limit or offset.
MatchesAll(req) ==
    \A k \in {"types", "where", "order_by", "folder", "limit", "offset"} :
        k \in DOMAIN req => req[k] = Undefined

\* The collection answered the query without an error field and did not fail.
QuerySucceeded ==
    /\ Len(received) = 1
    /\ received[1].t # "rejection"
    /\ ~ErrorReceived

(* C13: a run on an empty YAML file goes on to the collection, sends it the  *)
(* empty, match-all request (no types, where, order_by, folder, limit or     *)
(* offset, so no task-view default either) and, when the query succeeds,     *)
(* completes with exit status 0.                                             *)
C13_EmptyFileMatchesAll ==
    EmptyFileNamed =>
        /\ Len(CallsOf("open")) = 1
        /\ opened = 1 =>
              Len(CallsOf("query")) = 1 /\ MatchesAll(CallsOf("query")[1].req)
        /\ (Exited /\ QuerySucceeded) => exitCode = 0

\* The query mapping of a document: what is under `query:` when that is a
\* mapping, the document otherwise.
QueryMappingOf(doc) == IF HasQueryMapping(doc) THEN doc.v["query"] ELSE doc

(* C14: in the run path every key of the YAML query mapping, keys that are   *)
(* not fields of the request shape included, is passed unchanged to the      *)
(* collection's query call.                                                  *)
C14_EveryKeyPassedThrough ==
    (RunIssued /\ RunDocument.t = "map") =>
        \A k \in DOMAIN QueryMappingOf(RunDocument).v :
            /\ k \in DOMAIN RunReq
            /\ RunReq[k] = QueryMappingOf(RunDocument).v[k]

\* The index of the first colon of s, 0 when it has none.
FirstColon(s) ==
    IF \E i \in 1..Len(s) : CharAt(s, i) = ":"
    THEN MinOf({i \in 1..Len(s) : CharAt(s, i) = ":"})
    ELSE 0

\* The text of an --order value before its first colon: its field.
BeforeColon(s) == IF FirstColon(s) = 0 THEN s ELSE SubSeq(s, 1, FirstColon(s) - 1)

\* The text of an --order value after its first colon, "" when it has none.
AfterColon(s) ==
    IF FirstColon(s) = 0 THEN "" ELSE SubSeq(s, FirstColon(s) + 1, Len(s))

\* The direction the value asks for: the text after the first colon when it
\* is asc or desc, asc otherwise.
DirectionOf(s) == IF AfterColon(s) \in {"asc", "desc"} THEN AfterColon(s) ELSE "asc"

(* C15: for every value given to --order/-o in the query command, the        *)
(* order_by entry sent has field equal to the text before the first colon    *)
(* and direction equal to the text after it when that is asc or desc, and    *)
(* asc when the direction is omitted or not recognised; the direction sent   *)
(* is always asc or desc.                                                    *)
C15_OrderDirectionAscOrDesc ==
    (QueryIssued /\ GivenValues(Args, OrderFlags) # <<>>) =>
        LET given == GivenValues(Args, OrderFlags) IN
        /\ "order_by" \in DOMAIN QueryReq
        /\ Len(QueryReq.order_by) = Len(given)
        /\ \A j \in 1..Len(given) :
              /\ QueryReq.order_by[j].field = BeforeColon(given[j])
              /\ QueryReq.order_by[j].direction = DirectionOf(given[j])
              /\ QueryReq.order_by[j].direction \in {"asc", "desc"}

\* --limit/-l or --offset is read as a flag at the end of the argument list,
\* with no token after it.
NumericFlagWithoutValue(args) ==
    /\ Len(args) > 0
    /\ args[Len(args)] \in {"--limit", "-l", "--offset"}
    /\ ~IsFlagValue(args, Len(args))

(* C16: in the query command a numeric flag (--limit/-l or --offset) that    *)
(* has no following value is a fatal usage error: no query is sent to the    *)
(* collection and the process exits with a non-zero status.                  *)
C16_NumericFlagNeedsValue ==
    (handler = "query" /\ NumericFlagWithoutValue(Args)) =>
        /\ CallsOf("query") = <<>>
        /\ Exited => exitCode # 0

\* JSON output is asked for: --json anywhere in run's arguments; in query,
\* --json or --format json read as a flag.
JsonRequested ==
    \/ handler = "run" /\ Names(Args, "--json")
    \/ /\ handler = "query"
       /\ \E i \in 1..Len(Args) :
            /\ ~IsFlagValue(Args, i)
            /\ \/ Args[i] = "--json"
               \/ Args[i] = "--format" /\ i < Len(Args) /\ Args[i + 1] = "json"

InboxRendered == handler = "inbox" /\ clock # -1 /\ Len(received) = 1
InboxNotes == ResultsOf(received[1])

\* The captured time and the identifier of a note.
CapturedOf(note) == Prop(Prop(note, "frontmatter"), "captured").v
IdOf(note) == Prop(Prop(note, "frontmatter"), "id").v

\* The relative-time policy for an elapsed duration e >= 0 in milliseconds.
RelativeTimeFor(e, captured) ==
    CASE e < 60000                       -> "just now"
      [] 60000 <= e /\ e < 3600000       -> ToString(e \div 60000) \o "m ago"
      [] 3600000 <= e /\ e < 86400000    -> ToString(e \div 3600000) \o "h ago"
      [] 86400000 <= e /\ e < 604800000  -> ToString(e \div 86400000) \o "d ago"
      [] e >= 604800000                  -> LocaleDate(captured)

\* The lines of the output that open with a relative time.
TimedLines == SelectSeq(stdout, LAMBDA line : StartsWith(line, "["))

(* C18: for every elapsed duration e = now - captured >= 0 the relative time *)
(* shown for a note is "just now" below one minute, "<floor(e/1min)>m ago"   *)
(* below 60 minutes, "<floor(e/1h)>h ago" below 24 hours,                    *)
(* "<floor(e/1day)>d ago" below 7 days, and the calendar date of the capture *)
(* from 7 days on.                                                           *)
C18_RelativeTimePolicy ==
    InboxRendered =>
        /\ Len(TimedLines) = Len(InboxNotes)
        /\ \A j \in 1..Len(InboxNotes) :
              clock - CapturedOf(InboxNotes[j]) >= 0 =>
                  StartsWith(TimedLines[j],
                      "[" \o RelativeTimeFor(clock - CapturedOf(InboxNotes[j]),
                                             CapturedOf(InboxNotes[j]))
                      \o "] " \o SliceTo(IdOf(InboxNotes[j]), 8) \o ": ")

C18_Witness ==
    /\ InboxRendered
    /\ clock = 604799999
    /\ Len(InboxNotes) = 2
    /\ StartsWith(TimedLines[1], "[5d ago] ")
    /\ StartsWith(TimedLines[2], "[6d ago] ")

(* C19: the relative-time formatter is deterministic in the captured         *)
(* timestamp it is given and never reads the wall clock itself: the text it  *)
(* returned for a note is the text it returns for that note whatever the     *)
(* clock shows.                                                              *)
C19_IndependentOfWallClock ==
    InboxRendered =>
        \A j \in 1..Len(InboxNotes), reading \in Nows :
            formatRelativeTime(CapturedOf(InboxNotes[j]), reading)
                = formatRelativeTime(CapturedOf(InboxNotes[j]), clock)

\* A text-mode render that succeeded: query, run or inbox ended with status 0
\* without JSON output.
TextRendered ==
    /\ handler \in {"query", "run", "inbox"}
    /\ ~JsonRequested
    /\ Exited /\ exitCode = 0
    /\ Len(received) = 1

\* The count a summary line shows for a response: the number of results
\* returned, followed by " of <total_count>" exactly when has_more is set.
CountShown(result) ==
    ToString(Len(ResultsOf(result)))
    \o (IF Truthy(Prop(Prop(result, "meta"), "has_more"))
        THEN " of " \o ToStr(Prop(Prop(result, "meta"), "total_count"))
        ELSE "")

(* C20: every successful text-mode render (query, run and inbox) ends with a *)
(* total-count summary line, also when the result list is empty (the inbox   *)
(* then prints its no-unprocessed-notes sentence before it); the count shown *)
(* is the number of results returned, followed by " of <total_count>"        *)
(* exactly when the metadata has has_more set.                               *)
C20_RenderEndsWithTotal ==
    TextRendered =>
        /\ Len(stdout) > 0
        /\ StartsWith(stdout[Len(stdout)],
                      "\nTotal: " \o CountShown(received[1]) \o " ")
        /\ (handler = "inbox" /\ ResultsOf(received[1]) = <<>>) =>
              /\ Len(stdout) > 1
              /\ stdout[Len(stdout) - 1] = "  No unprocessed notes in inbox."

\* The preview of a body cut at `width`: its first line, cut to at most width
\* characters, with "..." appended exactly when the first line is longer.
PreviewOf(body, width) ==
    LET text == IF body.t = "string" THEN body.v ELSE ""
        newlines == {i \in 1..Len(text) : CharAt(text, i) = "\n"}
        first == IF newlines = {} THEN text
                 ELSE SubSeq(text, 1, MinOf(newlines) - 1)
    IN  IF Len(first) > width THEN SubSeq(first, 1, width) \o "..." ELSE first

(* C21: in the inbox listing the preview of each note is the first line of   *)
(* its body cut to at most 50 characters, and the ellipsis `...` is appended *)
(* if and only if the first line is longer than 50 characters.               *)
C21_InboxEllipsisIffTruncated ==
    InboxRendered =>
        /\ Len(TimedLines) = Len(InboxNotes)
        /\ \A j \in 1..Len(InboxNotes) :
              TimedLines[j]
                  = "[" \o formatRelativeTime(CapturedOf(InboxNotes[j]), clock)
                    \o "] " \o SliceTo(IdOf(InboxNotes[j]), 8) \o ": "
                    \o PreviewOf(Prop(InboxNotes[j], "body"), 50)

\* A generic-mode render that succeeded: run, or query with a filter, ended
\* with status 0 and text output.
GenericRendered ==
    /\ TextRendered
    /\ handler = "run" \/ (handler = "query" /\ FilterGiven(Args))

\* The lines of the output that show a body preview, and the bodies of the
\* documents of the response that have one.
BodyLines == SelectSeq(stdout, LAMBDA line : StartsWith(line, "  Body: "))
BodiesOf(results) ==
    SelectSeq([j \in 1..Len(results) |-> Prop(results[j], "body")],
              LAMBDA body : Truthy(body))

(* C22: in generic mode a document with a body gets a one-line preview: the  *)
(* first line of the body cut to at most 60 characters, with the trailing    *)
(* ellipsis if and only if that first line is longer than 60 characters,     *)
(* whatever the length of the rest of the body.                              *)
C22_BodyEllipsisIffTruncated ==
    GenericRendered =>
        LET bodies == BodiesOf(ResultsOf(received[1])) IN
        /\ Len(BodyLines) = Len(bodies)
        /\ \A j \in 1..Len(bodies) :
              BodyLines[j] = "  Body: " \o PreviewOf(bodies[j], 60)

\* The positions of argv that hold the token --vault.
VaultFlagPositions == {i \in 1..Len(argv) : argv[i] = "--vault"}

\* The first --vault of the command line is followed by a non-empty token.
FlagHasValue ==
    /\ VaultFlagPositions # {}
    /\ MinOf(VaultFlagPositions) < Len(argv)
    /\ argv[MinOf(VaultFlagPositions) + 1] # ""

\* The vault path an invocation is to use: flag, then environment, then the
\* default under the home directory.
ExpectedVaultPath ==
    IF FlagHasValue THEN argv[MinOf(VaultFlagPositions) + 1]
    ELSE IF envVault # Undefined THEN envVault.v
    ELSE "/home/user/obsidian_vaults/mdbase_vault"

OpsIssued == [i \in 1..Len(calls) |-> calls[i].op]

\* The calls that have returned: open once the process has moved past it,
\* one create, query or validate per response received, close once the
\* process has ended after it.
CallsReturned ==
    (IF Len(calls) >= 1 /\ calls[1].op = "open" /\ pc # "open" THEN 1 ELSE 0)
    + Len(received)
    + (IF Len(calls) >= 1 /\ calls[Len(calls)].op = "close" /\ pc = "exited"
       THEN 1 ELSE 0)

CallsOutstanding == Len(calls) - CallsReturned

IsPrefix(s, t) == Len(s) <= Len(t) /\ \A i \in 1..Len(s) : s[i] = t[i]

(* C24: the calls to the collection are strictly serial: at most one call is *)
(* outstanding at any time; open is the first call; create, query and        *)
(* validate are issued only after open has succeeded and before close; close *)
(* is the last call; report issues open, query, query, validate, close in    *)
(* that order.                                                               *)
C24_CallsAreSerial ==
    /\ CallsOutstanding \in {0, 1}
    /\ \A i \in 1..Len(calls) :
         /\ calls[i].op = "open" <=> i = 1
         /\ i > 1 => opened = 1
         /\ calls[i].op = "close" => i = Len(calls)
    /\ handler = "report" =>
         IsPrefix(OpsIssued, <<"open", "query", "query", "validate", "close">>)

C24_Witness ==
    /\ handler = "report"
    /\ Exited
    /\ OpsIssued = <<"open", "query", "query", "validate", "close">>
    /\ CallsOutstanding = 0


\* The positions of argv that hold neither --vault nor the token after one.
NeitherVaultNorNext ==
    {i \in 1..Len(argv) :
        argv[i] # "--vault" /\ ~(i > 1 /\ argv[i - 1] = "--vault")}

\* The list r with the pair --vault /a placed after its first k tokens.
WithPairAt(r, k) ==
    SubSeq(r, 1, k) \o <<"--vault", "/a">> \o SubSeq(r, k + 1, Len(r))

\* The result has no --vault, the pair can be placed anywhere in it without
\* changing what is left, and the handler is the one its first token names.
StrippedAndPlacementFree ==
    LET r == stripVaultFlag(argv) IN
    /\ \A i \in 1..Len(r) : r[i] # "--vault"
    /\ \A k \in 0..Len(r) : stripVaultFlag(WithPairAt(r, k)) = r
    /\ (pc # "start" /\ SelectedCommand \in KnownCommands)
          => handler = SelectedCommand

(* C25 as stated: stripVaultFlag removes every --vault token and the token   *)
(* immediately after it, keeps all other tokens in order, leaves no --vault  *)
(* token, and the selected command does not depend on where the pair is.     *)
C25_EveryVaultTokenAndNextRemoved ==
    /\ stripVaultFlag(argv) = InOrder(argv, NeitherVaultNorNext, 1)
    /\ StrippedAndPlacementFree

(* C25, amended: stripVaultFlag removes every --vault token that is read as  *)
(* the flag (one that is not itself the path of the --vault before it) and   *)
(* the token immediately after it, keeps all other tokens in order, leaves   *)
(* no --vault token, and the selected command does not depend on where the   *)
(* pair --vault <path> is placed.                                            *)
C25_VaultPairsRemoved ==
    /\ stripVaultFlag(argv) = InOrder(argv, RemainingPositions, 1)
    /\ StrippedAndPlacementFree

C25_Witness ==
    /\ argv = <<"list", "--vault", "/a", "help">>
    /\ handler = "list"
    /\ stripVaultFlag(argv) = <<"list", "help">>
    /\ Len(calls) >= 1


\* openVault failed: open was called and no collection was handed over.
OpenFailure ==
    /\ Len(calls) >= 1
    /\ calls[1].op = "open"
    /\ pc # "open"
    /\ opened = 0

(* C26: when opening the collection fails, the failure message is surfaced  *)
(* on standard error, the process exits with a non-zero status, and no       *)
(* create, query, validate or close call is made in that invocation.         *)
C26_OpenFailureStopsInvocation ==
    OpenFailure =>
        /\ Exited
        /\ exitCode # 0
        /\ stderr \in {<<"Failed to open vault at " \o ExpectedVaultPath
                          \o ": cannot open">>,
                       <<Rejection.v>>}
        /\ calls = <<[op |-> "open", req |-> ExpectedVaultPath]>>
        /\ received = <<>>

C26_Witness ==
    /\ OpenFailure
    /\ Exited
    /\ handler = "report"
    /\ stderr = <<"Failed to open vault at /flag/vault: cannot open">>


\* The positions of query's arguments where token t is read as a flag, that
\* is, where it is not the value of the flag before it.
ReadAsFlag(t) == {i \in 1..Len(Args) : Args[i] = t /\ ~IsFlagValue(Args, i)}

\* The positions of Args that hold one of the three format names after the
\* --format at a position of P.
ValidFormatValues(P) ==
    {i + 1 : i \in {p \in P : p < Len(Args)
                              /\ Args[p + 1] \in {"table", "list", "json"}}}

\* The last valid value given to a --format of P is json.
LastFormatIsJson(P) ==
    /\ ValidFormatValues(P) # {}
    /\ Args[MaxOf(ValidFormatValues(P))] = "json"

\* A query invocation that succeeded and has printed its output.
QueryRendered ==
    /\ handler = "query"
    /\ Exited /\ exitCode = 0
    /\ QuerySucceeded

OutputIsJson == stdout = <<Json(received[1])>>

(* C27 as stated: in the query command the output is JSON once --json        *)
(* appears anywhere in the arguments; without --json it is JSON only when    *)
(* the last valid --format value is json.                                    *)
C27_JsonWhereverItAppears ==
    QueryRendered =>
        (OutputIsJson <=>
            \/ \E i \in 1..Len(Args) : Args[i] = "--json"
            \/ LastFormatIsJson({i \in 1..Len(Args) : Args[i] = "--format"}))

(* C27, amended: in the query command the output is JSON once --json is read *)
(* as a flag (it is not the value of the value flag before it), whatever     *)
(* --format values come before or after it; otherwise the output is JSON     *)
(* only when the last valid value of a --format read as a flag is json; an   *)
(* invalid --format value leaves the format chosen so far unchanged.         *)
C27_JsonFlagOrLastFormat ==
    QueryRendered =>
        (OutputIsJson <=>
            \/ ReadAsFlag("--json") # {}
            \/ LastFormatIsJson(ReadAsFlag("--format")))

C27_Witness ==
    /\ QueryRendered
    /\ Args = <<"--format", "json", "--format", "bogus">>
    /\ OutputIsJson


\* The integers the decimal numerals of the argument lists stand for; every
\* other token does not parse to an integer.
Numerals == {"5", "-3", "0"}

IntegerOf(token) ==
    CASE token = "5" -> 5
      [] token = "-3" -> 0 - 3
      [] token = "0" -> 0

\* The last non-empty value given to a flag of `flags`, as a list of at most
\* one token.
LastGiven(flags) ==
    LET given == GivenValues(Args, flags)
    IN  IF given = <<>> THEN <<>> ELSE <<given[Len(given)]>>

\* The value given to the flag parses to a non-zero integer.
NonZeroGiven(flags) ==
    /\ LastGiven(flags) # <<>>
    /\ LastGiven(flags)[1] \in Numerals
    /\ IntegerOf(LastGiven(flags)[1]) # 0

\* The request has the field exactly when the flag's value is a non-zero
\* integer, and then the field is that integer.
NumberSentIffNonZero(key, flags) ==
    /\ key \in DOMAIN QueryReq <=> NonZeroGiven(flags)
    /\ key \in DOMAIN QueryReq =>
          QueryReq[key] = IntegerOf(LastGiven(flags)[1])

(* C28: in the query command the request sent to the collection has a limit *)
(* (respectively offset) field if and only if --limit (respectively         *)
(* --offset) was given a value that parses to a non-zero integer; a value    *)
(* of 0 or one that does not parse leaves the field out, so the request      *)
(* never carries a zero or not-a-number limit or offset.                     *)
C28_NumberSentIffNonZeroInteger ==
    QueryIssued =>
        /\ NumberSentIffNonZero("limit", {"--limit", "-l"})
        /\ NumberSentIffNonZero("offset", {"--offset"})

C28_Witness ==
    /\ QueryIssued
    /\ Args = <<"--limit", "5", "--offset", "0">>
    /\ QueryReq.limit = 5
    /\ "offset" \notin DOMAIN QueryReq


\* The last value of a list of given values as an option: undefined when no
\* value was given.
LastOf(given) == IF given = <<>> THEN Undefined ELSE Str(given[Len(given)])

(* C29: in parseQueryArgs every value-taking flag consumes the token after   *)
(* it as its value even when that token is itself a flag, so the consumed    *)
(* token is never also read as a flag (`--type --json` yields types          *)
(* ["--json"] and leaves JSON output off); repeated --type and --order       *)
(* accumulate in argument order, a repeated --where or --folder keeps only   *)
(* the last value.                                                           *)
C29_ValueFlagsConsumeNextToken ==
    (handler = "query" /\ pc # "start") =>
        LET o == parseQueryArgs(Args) IN
        /\ o.types = GivenValues(Args, TypeFlags)
        /\ OrderAsGiven(o.order_by, GivenValues(Args, OrderFlags))
        /\ o.where = LastOf(GivenValues(Args, WhereFlags))
        /\ o.folder = LastOf(GivenValues(Args, FolderFlags))
        /\ o.limit = Undefined <=> GivenValues(Args, {"--limit", "-l"}) = <<>>
        /\ o.json <=> ReadAsFlag("--json") # {}
        /\ QueryIssued =>
              ("types" \in DOMAIN QueryReq /\ QueryReq.types = o.types)
                 \/ (o.types = <<>> /\ GivenValues(Args, TypeFlags) = <<>>)

C29_Witness ==
    /\ QueryRendered
    /\ Args = <<"--type", "--json", "--type", "a">>
    /\ QueryReq.types = <<"--json", "a">>
    /\ ~OutputIsJson


\* The texts with a count the formatter may return: 1..59 minutes, 1..23
\* hours, 1..6 days.
CountedTimes ==
    {ToString(n) \o "m ago" : n \in 1..59}
    \cup {ToString(n) \o "h ago" : n \in 1..23}
    \cup {ToString(n) \o "d ago" : n \in 1..6}

\* Line j of the notes opens with the relative time `text`.
ShowsTime(j, text) == StartsWith(TimedLines[j], "[" \o text \o "] ")

(* C30: the relative-time formatter never produces a zero count: every       *)
(* "Nm ago", "Nh ago" and "Nd ago" it returns has N in 1..59, 1..23 and 1..6 *)
(* respectively, and a captured timestamp later than the current time        *)
(* (negative elapsed duration) yields "just now".                            *)
C30_NoZeroCountAndFutureIsJustNow ==
    InboxRendered =>
        /\ Len(TimedLines) = Len(InboxNotes)
        /\ \A j \in 1..Len(InboxNotes) :
              /\ \E text \in CountedTimes
                             \cup {"just now",
                                   LocaleDate(CapturedOf(InboxNotes[j]))} :
                    ShowsTime(j, text)
              /\ clock < CapturedOf(InboxNotes[j]) => ShowsTime(j, "just now")

C30_Witness ==
    /\ InboxRendered
    /\ clock = 60000
    /\ Len(InboxNotes) = 2
    /\ clock < CapturedOf(InboxNotes[1])
    /\ ShowsTime(1, "just now")
    /\ ShowsTime(2, "1m ago")

====
